---- MODULE Spec2Model ----
(***************************************************************************)
(* Model of the bleemeo-python client: the token store                     *)
(* (bleemeo/_authenticator.py), the authenticated request executor and the *)
(* throttle guard (bleemeo/client.py), shared by several caller threads.   *)
(*                                                                         *)
(* Time is counted in ticks of 1/TicksPerSec second, so that the rounding  *)
(* of a remaining wait to whole seconds is visible.  A token is the number *)
(* of the OAuth exchange that issued it: the access token and the refresh  *)
(* token of one response carry the same number.                            *)
(***************************************************************************)
EXTENDS Integers, Sequences, FiniteSets, TLC

\* ---------------------------------------------------------------- bounds
Threads == {"t1", "t2"}
NoThread == "none"
MaxTime == 3
TicksPerSec == 2
MaxIssued == 3
MaxRetryAfter == 2
MaxBudget == 2
MaxPages == 3
MaxPageLen == 2
MaxFields == 2
MaxMessages == 2

\* ------------------------------------------------------ program constants
NoToken == 0
NoBudget == -1
DatetimeMin == 0
DefaultDelay == 30
NoHeader == -1
NoStatus == 0

\* The initial refresh token given at construction: no exchange issued it.
InitialRefreshToken == MaxIssued + 1

StatusSet == {200, 401, 429, 500}
\* Every status a resource request can be answered with.
AnyStatusSet == 100..599
\* The answers of the revocation endpoint.
RevokeStatusSet == {200, 204, 400}
RetryAfterSet == 1..MaxRetryAfter
BudgetSet == {NoBudget} \cup 0..MaxBudget
Outcomes == {"ok", "BadRequestError", "AuthenticationError",
             "ResourceNotFoundError", "ThrottleError", "APIError"}

VARIABLES
    tok,        \* Authenticator._current_token (NoToken is None)
    ref,        \* Authenticator._current_refresh
    lock,       \* holder of Authenticator._lock
    deadline,   \* Client._throttle_deadline, in ticks
    now,        \* datetime.now(), in ticks
    username,   \* whether a username is configured
    budget,     \* Client.throttle_max_auto_retry_delay
    issued,     \* number of token pairs the OAuth server has issued
    th,         \* per thread: the frame of the call it is running
    ob,         \* per thread: what the running call has done so far
    asked,      \* history: the furthest deadline a handled 429 has set
    ctor,       \* the call of Client.__init__: arguments, position, attributes
    coll,       \* the collection the server holds, as the pages it serves
    it,         \* the generator made by Client.iterate
    it2,        \* the generator of a second call of Client.iterate
    exc,        \* the BadRequestError being built from a 400 response
    revoked     \* history: the refresh tokens a completed logout has revoked

\* What the executor and the token store never touch.
others == <<ctor, coll, it, it2, exc, revoked>>

vars == <<tok, ref, lock, deadline, now, username, budget, issued, th, ob,
          asked, ctor, coll, it, it2, exc, revoked>>

\* ------------------------------------------------------------- helpers
\* A URL is the page of the collection it designates and whether its path
\* ends with a slash; NoUrl is None.
NoUrl == [page |-> 0, slash |-> FALSE]
\* The URL of a resource route as the caller names it: the first page.
ResourceUrl(slash) == [page |-> 1, slash |-> slash]
\* The URLs a caller of do() names.
UrlSet == [page : 1..2, slash : BOOLEAN]

\* Query parameters are a set of <<key, value>> pairs; None and the empty
\* mapping both put nothing in the query string.
NoParams == {}

\* No request: nothing has been sent by the call yet.
NoRequest ==
    [method |-> "none", url |-> NoUrl, params |-> NoParams, json |-> "None",
     content_type |-> "none"]

Idle ==
    [pc |-> "idle", op |-> "none", authenticated |-> FALSE, is_retry |-> FALSE,
     pass |-> 1, hdr |-> NoToken, wake |-> 0, resp |-> NoToken,
     grants |-> <<>>, url |-> NoUrl, carried |-> NoToken,
     method |-> "GET", params |-> NoParams, json |-> "None",
     content_type |-> "none", first |-> NoRequest]

Fresh ==
    [hist |-> <<>>, sends |-> 0, forced |-> 0,
     sleeps |-> 0, slept |-> 0, outcome |-> "none", delay |-> 0,
     retry_after |-> NoHeader, carries |-> "none", err_url |-> NoUrl,
     revoke_status |-> NoStatus,
     prevented |-> FALSE, result |-> <<NoToken, NoToken>>]

Set(f, t, r) == [f EXCEPT ![t] = r]
Last(h) == h[Len(h)]

\* ------------------------------------------------- pure parts of the code

\* Variant: the URL is used as the caller gave it.
BuildUrl_Raw(u) == u

\* Client._build_url: the path of the URL gets its trailing slash.
BuildUrl(u) == [u EXCEPT !.slash = TRUE]

\* ThrottleError.__init__: delay_seconds from the Retry-After header.
DelaySeconds(retry_after) ==
    IF retry_after # NoHeader THEN retry_after ELSE DefaultDelay

\* ThrottleError.__init__: throttle_deadline = now + delay.
ThrottleDeadline(t_now, ds) == t_now + ds * TicksPerSec

\* Variant: the remaining wait truncated instead of rounded up.
CeilSeconds_Floor(w) == w \div TicksPerSec

\* Client.do: math.ceil(time_to_wait.total_seconds()).
CeilSeconds(w) == (w + TicksPerSec - 1) \div TicksPerSec

\* Client.do: time_to_wait > timedelta(seconds=0).
MustPrevent(dl, t_now) == dl - t_now > 0

\* Client.do: the test that re-raises the ThrottleError instead of sleeping.
RefuseAutoRetry(b, ds) == (b = NoBudget \/ b = 0) \/ ds > b

\* Variant: sleeping for the configured maximum instead of the server delay.
SleepSeconds_Budget(b, ds) == b

\* Client.do: the argument of time.sleep.
SleepSeconds(b, ds) == ds

\* Variant: the re-run is retried like the first pass.
InTry_Always(pass) == TRUE

\* Client.do: only the first handling pass runs inside the try block.
InTry(pass) == pass = 1

\* Variant: the 401 of an unauthenticated call is resent too.
ResendAfter401_AnyCall(status, authenticated, is_retry) ==
    status = 401 /\ ~is_retry

\* Variant: a 401 is never resent.
ResendAfter401_Never(status, authenticated, is_retry) == FALSE

\* Variant: the resend is itself resent after a 401.
ResendAfter401_Every(status, authenticated, is_retry) ==
    status = 401 /\ authenticated

\* Client._do_request: the test that resends after a 401.
ResendAfter401(status, authenticated, is_retry) ==
    status = 401 /\ authenticated /\ ~is_retry

\* Variant: a server error is handled like a 429.
Classify_ServerErrorThrottles(status) ==
    IF status < 400 THEN "ok"
    ELSE IF status = 400 THEN "BadRequestError"
    ELSE IF status = 401 THEN "AuthenticationError"
    ELSE IF status = 404 THEN "ResourceNotFoundError"
    ELSE "ThrottleError"

\* Variant: a 404 is reported as a generic APIError.
Classify_NoNotFound(status) ==
    IF status < 400 THEN "ok"
    ELSE IF status = 400 THEN "BadRequestError"
    ELSE IF status = 401 THEN "AuthenticationError"
    ELSE IF status = 429 THEN "ThrottleError"
    ELSE "APIError"

\* Client._do_with_error_handling: status to outcome.
Classify(status) ==
    IF status < 400 THEN "ok"
    ELSE IF status = 400 THEN "BadRequestError"
    ELSE IF status = 401 THEN "AuthenticationError"
    ELSE IF status = 404 THEN "ResourceNotFoundError"
    ELSE IF status = 429 THEN "ThrottleError"
    ELSE "APIError"

\* The values of do()'s method, params and data arguments: params is None
\* or a mapping, data is None, an empty object or a non-empty one.
MethodSet == {"GET", "POST"}
ParamsSet == {NoParams, {<<"q", "x">>}}
DataSet == {"None", "{}", "d"}

\* Client._do_request: the Content-Type header is added when the request
\* has none and its json is truthy.
ContentType(current, json) ==
    IF current = "none" /\ json \notin {"None", "{}"}
    THEN "application/json" ELSE current

\* Session.prepare_request on the Request of the call: what goes to the
\* network besides the Authorization header.
Prepared(f) ==
    [method |-> f.method, url |-> f.url, params |-> f.params,
     json |-> f.json, content_type |-> ContentType(f.content_type, f.json)]

\* dict.setdefault(key, value) on a mapping.
SetDefault(m, key, value) ==
    IF \E e \in m : e[1] = key THEN m ELSE m \cup {<<key, value>>}

\* Variant: iterate works on the caller's mapping when there is one.
CopiesParams_Never(p) == p = NoParams

\* Client.iterate: 'params.copy() if params else {}' is a new mapping.
CopiesParams(p) == TRUE

\* Client._do_with_error_handling: the url attribute of the raised error
\* (only ResourceNotFoundError has one).
ErrorUrl(status, url) == IF status = 404 THEN url ELSE NoUrl

\* Client._do_with_error_handling: the deadline written on a 429.
NewDeadline(old, t_now, ds) == ThrottleDeadline(t_now, ds)

\* Variant: get_token authenticates only when forced.
GetTokenAuthenticates_ForcedOnly(token, force_refetch) == force_refetch

\* Variant: get_token ignores force_refetch.
GetTokenAuthenticates_AbsentOnly(token, force_refetch) == token = NoToken

\* Authenticator.get_token: the test that runs __authenticate.
GetTokenAuthenticates(token, force_refetch) == token = NoToken \/ force_refetch

\* Authenticator.tokens: the test that runs __authenticate.
TokensAuthenticates(token) == token = NoToken

\* Variant: the authenticator without its lock.
LockFree_Always == TRUE

\* "with self._lock": the lock can be taken.
LockFree == lock = NoThread

\* Variant: a refused refresh token always falls back to the password.
InvalidRefreshIsFatal_Never(user) == FALSE

\* Authenticator.__authenticate: "if not self.username" after a refused
\* refresh_token grant.
InvalidRefreshIsFatal(user) == ~user

\* Variant: the password grant is always tried first.
FirstGrant_Password(refresh) == "password"

\* Authenticator.logout: the test that raises APIError.
RevokeFailed(status) == status # 200

\* Authenticator.__authenticate: the first grant sent.
FirstGrant(refresh) == IF refresh # NoToken THEN "refresh" ELSE "password"

\* The attributes Client.__init__ creates after its validation.
Attributes == {"session", "_throttle_deadline", "_authenticator"}

\* Client.__init__ has returned: its arguments are gone, the attributes made.
Constructed ==
    [arg_user |-> "None", arg_token |-> "None", load_from_env |-> FALSE,
     env_user |-> "None", env_token |-> "None",
     username |-> "None", token |-> "None", pc |-> "ready",
     made |-> Attributes]

\* A string argument or environment variable: None (unset), empty, or set.
StrSet == {"None", "", "v"}

\* Python's truth value of an optional string.
Truthy(x) == x \notin {"None", ""}

\* Client.__init__: x = x or os.environ.get(NAME).
OrEnv(x, env) == IF Truthy(x) THEN x ELSE env

\* Client.__init__: the test that raises ConfigurationError.
MissingCredentials_IsNone(user, token) == user = "None" /\ token = "None"
MissingCredentials(user, token) == ~Truthy(user) /\ ~Truthy(token)

\* No collection is being listed.
NoCollection == [pages |-> <<>>, last_next |-> "null"]

\* No generator has been made.
NoIteration ==
    [pc |-> "none", next_url |-> NoUrl, params |-> NoParams,
     given |-> NoParams, caller |-> NoParams, buf |-> <<>>,
     data_next |-> NoUrl, yielded |-> <<>>, urls |-> <<>>, nexts |-> <<>>,
     sends |-> 0, refused |-> 0, error |-> "none"]

\* No 400 response is being turned into an exception.
NoException ==
    [pc |-> "none", status |-> NoStatus, body |-> <<>>, message |-> <<>>,
     error_fields |-> <<>>]

\* ------------------------------------------------------------------ Init
Init ==
    /\ tok = NoToken
    /\ \E u \in BOOLEAN, r \in {NoToken, InitialRefreshToken} :
          /\ (u \/ r # NoToken)
          /\ username = u
          /\ ref = r
    /\ lock = NoThread
    /\ deadline = DatetimeMin
    /\ now = 0
    /\ budget \in BudgetSet
    /\ issued = 0
    /\ th = [t \in Threads |-> Idle]
    /\ ob = [t \in Threads |-> Fresh]
    /\ asked = DatetimeMin
    /\ ctor = Constructed
    /\ coll = NoCollection
    /\ it = NoIteration
    /\ it2 = NoIteration
    /\ revoked = {}
    /\ exc = NoException

\* ------------------------------------------------------- frame helpers
Frame(t, pcv) == Set(th, t, [th[t] EXCEPT !.pc = pcv])

\* The frame of a call that has ended: its locals are gone.
Finished(t) ==
    Set(th, t, [Idle EXCEPT !.pc = "done", !.op = th[t].op,
                            !.authenticated = th[t].authenticated])

\* The call of thread t ends: a return ("ok") or a raised error, which
\* carries the response of the request named by c.
Ended(t, o, c) ==
    /\ th' = Finished(t)
    /\ ob' = Set(ob, t, [ob[t] EXCEPT !.outcome = o, !.carries = c])

\* A thread can start a call when it is not inside one.
CanCall(t) == th[t].pc \in {"idle", "done"}

\* Variant: the throttle check stands inside the try block, so that the
\* error it raises is slept on and the call re-run when the budget allows.
DoRequest_PreventInTry(t, a, m, u, p, d) ==
    /\ CanCall(t)
    /\ IF MustPrevent(deadline, now)
       THEN LET ds == CeilSeconds(deadline - now) IN
            IF ~RefuseAutoRetry(budget, ds)
            THEN /\ th' = Set(th, t, [Idle EXCEPT !.pc = "sleep", !.op = "do",
                                 !.authenticated = a, !.url = BuildUrl(u),
                                 !.method = m, !.params = p, !.json = d,
                                 !.wake = now + ds * TicksPerSec])
                 /\ ob' = Set(ob, t, [Fresh EXCEPT !.sleeps = 1, !.slept = ds,
                                                   !.delay = ds])
            ELSE /\ th' = Set(th, t, [Idle EXCEPT !.pc = "done", !.op = "do",
                                                  !.authenticated = a])
                 /\ ob' = Set(ob, t, [Fresh EXCEPT !.outcome = "ThrottleError",
                                      !.delay = ds, !.prevented = TRUE])
       ELSE /\ th' = Set(th, t, [Idle EXCEPT !.pc = "request", !.op = "do",
                                 !.authenticated = a, !.url = BuildUrl(u),
                                 !.method = m, !.params = p, !.json = d])
            /\ ob' = Set(ob, t, Fresh)
    /\ UNCHANGED <<tok, ref, lock, deadline, asked, now, username, budget, issued>>

\* ------------------------------------------------------------ Client.do
\* do(): the throttle check, then the first call of _do_with_error_handling,
\* up to the point where _do_request asks for a token or is ready to send.
DoRequest(t, a, m, u, p, d) ==
    /\ CanCall(t)
    /\ IF MustPrevent(deadline, now)
       THEN /\ th' = Set(th, t, [Idle EXCEPT !.pc = "done", !.op = "do",
                                             !.authenticated = a])
            /\ ob' = Set(ob, t, [Fresh EXCEPT !.outcome = "ThrottleError",
                                 !.delay = CeilSeconds(deadline - now),
                                 !.prevented = TRUE])
       ELSE /\ th' = Set(th, t, [Idle EXCEPT !.pc = "request", !.op = "do",
                                 !.authenticated = a, !.url = BuildUrl(u),
                                 !.method = m, !.params = p, !.json = d])
            /\ ob' = Set(ob, t, Fresh)
    /\ UNCHANGED <<tok, ref, lock, deadline, asked, now, username, budget, issued>>

\* do() as the higher-level methods that read call it: a GET without
\* parameters and without body.
DoCall(t, a, u) == DoRequest(t, a, "GET", u, NoParams, "None")

\* A caller calls do() on a resource route.
DoStart(t, a) ==
    /\ DoCall(t, a, ResourceUrl(TRUE))
    /\ UNCHANGED others

\* A caller reads Client.tokens.
TokensStart(t) ==
    /\ CanCall(t)
    /\ th' = Set(th, t, [Idle EXCEPT !.pc = "lock", !.op = "tokens"])
    /\ ob' = Set(ob, t, Fresh)
    /\ UNCHANGED <<tok, ref, lock, deadline, asked, now, username, budget, issued, others>>

\* A caller calls Client.logout.
LogoutStart(t) ==
    /\ CanCall(t)
    /\ th' = Set(th, t, [Idle EXCEPT !.pc = "lock", !.op = "logout"])
    /\ ob' = Set(ob, t, Fresh)
    /\ UNCHANGED <<tok, ref, lock, deadline, asked, now, username, budget, issued, others>>

\* ------------------------------------------------------- Authenticator
\* __authenticate begins under the lock: the first grant is posted.
BeginAuthenticate(t, forced) ==
    /\ lock' = t
    /\ th' = Set(th, t, [th[t] EXCEPT !.pc = FirstGrant(ref),
                                      !.grants = <<FirstGrant(ref)>>,
                                      !.carried = ref])
    /\ ob' = Set(ob, t, [ob[t] EXCEPT !.forced = IF forced THEN @ + 1 ELSE @])
    /\ UNCHANGED <<tok, ref>>

\* Variant: a resend keeps the Authorization header of the previous send.
Sent_Stale(t, token) ==
    /\ th' = Set(th, t, [th[t] EXCEPT !.pc = "await",
                   !.hdr = IF th[t].hdr # NoToken THEN th[t].hdr ELSE token,
                   !.resp = NoToken, !.grants = <<>>,
                   !.carried = NoToken,
                   !.content_type = ContentType(@, th[t].json),
                   !.first = IF @ = NoRequest THEN Prepared(th[t]) ELSE @])
    /\ ob' = Set(ob, t, [ob[t] EXCEPT !.sends = @ + 1])

\* _do_request up to _send: an authenticated request takes the token of
\* get_token(force_refetch=is_retry) as its Authorization header, which may
\* first run __authenticate; then the prepared request goes to the network.
Sent(t, token) ==
    /\ th' = Set(th, t, [th[t] EXCEPT !.pc = "await", !.hdr = token,
                   !.resp = NoToken, !.grants = <<>>,
                   !.carried = NoToken,
                   !.content_type = ContentType(@, th[t].json),
                   !.first = IF @ = NoRequest THEN Prepared(th[t]) ELSE @])
    /\ ob' = Set(ob, t, [ob[t] EXCEPT !.sends = @ + 1])

\* Variant: the token is asked for and attached whatever the call.
Request_AlwaysBearer(t) ==
    /\ th[t].pc = "request"
    /\ LockFree
    /\ IF GetTokenAuthenticates(tok, th[t].is_retry)
       THEN BeginAuthenticate(t, th[t].is_retry)
       ELSE /\ Sent(t, tok)
            /\ UNCHANGED <<tok, ref, lock>>
    /\ UNCHANGED <<deadline, asked, now, username, budget, issued, others>>

\* _do_request up to the send: an authenticated call asks get_token for the
\* token of its Authorization header, any other call is sent as it is.
Request(t) ==
    /\ th[t].pc = "request"
    /\ IF th[t].authenticated
       THEN /\ LockFree
            /\ IF GetTokenAuthenticates(tok, th[t].is_retry)
               THEN BeginAuthenticate(t, th[t].is_retry)
               ELSE /\ Sent(t, tok)
                    /\ UNCHANGED <<tok, ref, lock>>
       ELSE /\ Sent(t, NoToken)
            /\ UNCHANGED <<tok, ref, lock>>
    /\ UNCHANGED <<deadline, asked, now, username, budget, issued, others>>

\* Variant: tokens reads the pair without taking the lock.
Tokens_Unlocked(t) ==
    /\ th[t].pc = "lock" /\ th[t].op = "tokens"
    /\ IF TokensAuthenticates(tok)
       THEN BeginAuthenticate(t, FALSE)
       ELSE /\ th' = Finished(t)
            /\ ob' = Set(ob, t, [ob[t] EXCEPT !.outcome = "ok",
                                              !.result = <<tok, ref>>])
            /\ UNCHANGED <<tok, ref, lock>>
    /\ UNCHANGED <<deadline, asked, now, username, budget, issued, others>>

\* The tokens property.
Tokens(t) ==
    /\ th[t].pc = "lock" /\ th[t].op = "tokens"
    /\ LockFree
    /\ IF TokensAuthenticates(tok)
       THEN BeginAuthenticate(t, FALSE)
       ELSE /\ th' = Finished(t)
            /\ ob' = Set(ob, t, [ob[t] EXCEPT !.outcome = "ok",
                                              !.result = <<tok, ref>>])
            /\ UNCHANGED <<tok, ref, lock>>
    /\ UNCHANGED <<deadline, asked, now, username, budget, issued, others>>

\* A 200 answer to a grant: the access token of the response is stored.
AdoptAccess(t) ==
    /\ issued < MaxIssued
    /\ issued' = issued + 1
    /\ tok' = issued + 1
    /\ th' = Set(th, t, [th[t] EXCEPT !.pc = "adopt", !.resp = issued + 1])
    /\ UNCHANGED <<ref, lock, ob>>

\* An error raised inside "with self._lock" releases the lock.
RaiseUnderLock(t, o, c) ==
    /\ lock' = NoThread
    /\ Ended(t, o, c)

\* __authenticate: the answer to the refresh_token grant.
RefreshResponse(t, ok) ==
    /\ th[t].pc = "refresh"
    /\ IF ok
       THEN AdoptAccess(t)
       ELSE IF InvalidRefreshIsFatal(username)
            THEN /\ RaiseUnderLock(t, "AuthenticationError", "refresh")
                 /\ UNCHANGED <<tok, ref, issued>>
            ELSE /\ th' = Set(th, t, [th[t] EXCEPT !.pc = "password",
                                        !.grants = Append(@, "password")])
                 /\ UNCHANGED <<tok, ref, lock, issued, ob>>
    /\ UNCHANGED <<deadline, asked, now, username, budget, others>>

\* Variant: a failed password grant is ignored and the request is sent with
\* the token held.
PasswordResponse_Swallow(t, ok) ==
    /\ th[t].pc = "password"
    /\ IF ok
       THEN AdoptAccess(t)
       ELSE /\ lock' = NoThread
            /\ Sent(t, tok)
            /\ UNCHANGED <<tok, ref, issued>>
    /\ UNCHANGED <<deadline, asked, now, username, budget, others>>

\* __authenticate: the answer to the password grant.
PasswordResponse(t, ok) ==
    /\ th[t].pc = "password"
    /\ IF ok
       THEN AdoptAccess(t)
       ELSE /\ RaiseUnderLock(t, "AuthenticationError", "password")
            /\ UNCHANGED <<tok, ref, issued>>
    /\ UNCHANGED <<deadline, asked, now, username, budget, others>>

\* Variant: the refresh token held is kept when a new pair is received.
AdoptRefresh_Keep(t) ==
    /\ th[t].pc = "adopt"
    /\ ref' = IF ref # NoToken THEN ref ELSE th[t].resp
    /\ lock' = NoThread
    /\ IF th[t].op = "do"
       THEN Sent(t, tok)
       ELSE /\ th' = Finished(t)
            /\ ob' = Set(ob, t, [ob[t] EXCEPT !.outcome = "ok",
                                              !.result = <<tok, ref'>>])
    /\ UNCHANGED <<tok, deadline, asked, now, username, budget, issued, others>>

\* __authenticate stores the refresh token of the response and returns;
\* get_token / tokens read the pair and leave the lock.
AdoptRefresh(t) ==
    /\ th[t].pc = "adopt"
    /\ ref' = th[t].resp
    /\ lock' = NoThread
    /\ IF th[t].op = "do"
       THEN Sent(t, tok)
       ELSE /\ th' = Finished(t)
            /\ ob' = Set(ob, t, [ob[t] EXCEPT !.outcome = "ok",
                                              !.result = <<tok, ref'>>])
    /\ UNCHANGED <<tok, deadline, asked, now, username, budget, issued, others>>

\* logout(): nothing to do without a refresh token, else the revocation
\* request is posted under the lock.
Logout(t) ==
    /\ th[t].pc = "lock" /\ th[t].op = "logout"
    /\ LockFree
    /\ IF ref = NoToken
       THEN /\ Ended(t, "ok", "none")
            /\ UNCHANGED lock
       ELSE /\ lock' = t
            /\ th' = Set(th, t, [th[t] EXCEPT !.pc = "revoke", !.resp = ref])
            /\ UNCHANGED ob
    /\ UNCHANGED <<tok, ref, deadline, asked, now, username, budget, issued, others>>

\* logout(): the answer to the revocation request.
Revocation(t, status) ==
    /\ th[t].pc = "revoke"
    /\ IF RevokeFailed(status)
       THEN /\ lock' = NoThread
            /\ th' = Finished(t)
            /\ ob' = Set(ob, t, [ob[t] EXCEPT !.outcome = "APIError",
                        !.carries = "revoke", !.revoke_status = status])
            /\ UNCHANGED tok
       ELSE /\ tok' = NoToken
            /\ th' = Frame(t, "clear")
            /\ ob' = Set(ob, t, [ob[t] EXCEPT !.revoke_status = status])
            /\ UNCHANGED lock
    /\ UNCHANGED <<ref, deadline, asked, now, username, budget, issued>>

RevokeResponse(t, status) == Revocation(t, status) /\ UNCHANGED others

\* The same step, the revoked token remembered when the answer makes logout
\* go on to clear the pair.
RevokeWatched(t, status) ==
    /\ Revocation(t, status)
    /\ revoked' = IF RevokeFailed(status) THEN revoked
                  ELSE revoked \cup {th[t].resp}
    /\ UNCHANGED <<ctor, coll, it, it2, exc>>

\* Variant: logout forgets the access token only.
ClearRefresh_KeepRefresh(t) ==
    /\ th[t].pc = "clear"
    /\ lock' = NoThread
    /\ Ended(t, "ok", "none")
    /\ UNCHANGED <<tok, ref, deadline, asked, now, username, budget, issued, others>>

\* logout(): the refresh token is cleared and the lock left.
ClearRefresh(t) ==
    /\ th[t].pc = "clear"
    /\ ref' = NoToken
    /\ lock' = NoThread
    /\ Ended(t, "ok", "none")
    /\ UNCHANGED <<tok, deadline, asked, now, username, budget, issued, others>>

\* --------------------------------------------------- Client._do_request
\* do(): what follows a ThrottleError raised by _do_with_error_handling.
Throttled(t, ds, seen) ==
    /\ deadline' = NewDeadline(deadline, now, ds)
    /\ IF InTry(th[t].pass) /\ ~RefuseAutoRetry(budget, ds)
       THEN /\ th' = Set(th, t, [th[t] EXCEPT !.pc = "sleep",
                       !.wake = now + SleepSeconds(budget, ds) * TicksPerSec])
            /\ ob' = Set(ob, t, [seen EXCEPT !.sleeps = @ + 1,
                       !.slept = SleepSeconds(budget, ds), !.delay = ds])
       ELSE /\ th' = Finished(t)
            /\ ob' = Set(ob, t, [seen EXCEPT !.outcome = "ThrottleError",
                                             !.delay = ds,
                                             !.carries = "resource"])

\* The response to a sent request: _do_request resends once after a 401,
\* else _do_with_error_handling classifies it and do() handles a throttle.
Response(t, status, retry_after) ==
    /\ th[t].pc = "await"
    /\ (status # 429 => retry_after = NoHeader)
    /\ LET seen == [ob[t] EXCEPT !.hist = Append(@, status),
                                 !.retry_after = retry_after] IN
       IF ResendAfter401(status, th[t].authenticated, th[t].is_retry)
       THEN /\ th' = Set(th, t, [th[t] EXCEPT !.pc = "request", !.is_retry = TRUE])
            /\ ob' = Set(ob, t, seen)
            /\ UNCHANGED deadline
       ELSE IF Classify(status) = "ThrottleError"
            THEN Throttled(t, DelaySeconds(retry_after), seen)
            ELSE /\ th' = Finished(t)
                 /\ ob' = Set(ob, t, [seen EXCEPT !.outcome = Classify(status),
                        !.carries = IF status < 400 THEN "none" ELSE "resource",
                        !.err_url = ErrorUrl(status, th[t].url)])
                 /\ UNCHANGED deadline
    /\ UNCHANGED <<tok, ref, lock, now, username, budget, issued, others>>

\* Variant: the re-run after the sleep is sent without the parameters.
Wake_DropParams(t) ==
    /\ th[t].pc = "sleep"
    /\ now >= th[t].wake
    /\ th' = Set(th, t, [th[t] EXCEPT !.pass = 2, !.is_retry = FALSE, !.wake = 0,
                                      !.pc = "request", !.params = NoParams])
    /\ UNCHANGED <<tok, ref, lock, deadline, asked, now, username, budget, issued, ob, others>>

\* do(): time.sleep returns, the second call of _do_with_error_handling
\* starts.
Wake(t) ==
    /\ th[t].pc = "sleep"
    /\ now >= th[t].wake
    /\ th' = Set(th, t, [th[t] EXCEPT !.pass = 2, !.is_retry = FALSE, !.wake = 0,
                                      !.pc = "request"])
    /\ UNCHANGED <<tok, ref, lock, deadline, asked, now, username, budget, issued, ob, others>>

\* The clock advances.
Tick ==
    /\ now < MaxTime
    /\ now' = now + 1
    /\ UNCHANGED <<tok, ref, lock, deadline, asked, username, budget, issued, th, ob, others>>

\* A received response: a 429 carries a Retry-After header.
Respond(t) ==
    \E s \in StatusSet, ra \in RetryAfterSet \cup {NoHeader} :
        /\ (s = 429 => ra \in RetryAfterSet)
        /\ Response(t, s, ra)
        /\ UNCHANGED asked

\* The steps of callers of do().
NextDo ==
    \/ \E t \in Threads, a \in BOOLEAN : DoStart(t, a)
    \/ \E t \in Threads : Request(t)
    \/ \E t \in Threads, ok \in BOOLEAN : RefreshResponse(t, ok)
    \/ \E t \in Threads, ok \in BOOLEAN : PasswordResponse(t, ok)
    \/ \E t \in Threads : AdoptRefresh(t)
    \/ \E t \in Threads : Respond(t)
    \/ \E t \in Threads : Wake(t)
    \/ Tick

\* The steps of callers of tokens and logout().
NextStore ==
    \/ \E t \in Threads : TokensStart(t)
    \/ \E t \in Threads : LogoutStart(t)
    \/ \E t \in Threads : Tokens(t)
    \/ \E t \in Threads : Logout(t)
    \/ \E t \in Threads, s \in RevokeStatusSet : RevokeResponse(t, s)
    \/ \E t \in Threads : ClearRefresh(t)

Next == NextDo \/ NextStore

Spec == Init /\ [][Next]_vars

\* The token store under every kind of credentials, with the throttle
\* auto-retry switched on.
InitTokens == Init /\ budget = 1
SpecTokens == InitTokens /\ [][Next]_vars

\* The throttle guard under every auto-retry budget, for callers of do(), with
\* a username and an initial refresh token (every grant of __authenticate can
\* be sent).
InitThrottle == Init /\ username /\ ref = InitialRefreshToken
SpecThrottle == InitThrottle /\ [][NextDo]_vars

\* One caller of do(), on any URL, answered with any status, with a username
\* and the throttle auto-retry switched on.
OneCaller == {"t1"}
DoStartAt(t, a, u) ==
    /\ DoCall(t, a, u)
    /\ UNCHANGED others
RespondAny(t) ==
    \E s \in AnyStatusSet, ra \in RetryAfterSet \cup {NoHeader} :
        /\ Response(t, s, ra)
        /\ UNCHANGED asked
InitStatus == Init /\ username /\ ref = NoToken /\ budget = 1
NextStatus ==
    \/ \E t \in OneCaller, a \in BOOLEAN, u \in UrlSet : DoStartAt(t, a, u)
    \/ \E t \in OneCaller : Request(t)
    \/ \E t \in OneCaller, ok \in BOOLEAN : RefreshResponse(t, ok)
    \/ \E t \in OneCaller, ok \in BOOLEAN : PasswordResponse(t, ok)
    \/ \E t \in OneCaller : AdoptRefresh(t)
    \/ \E t \in OneCaller : RespondAny(t)
    \/ \E t \in OneCaller : Wake(t)
    \/ Tick
SpecStatus == InitStatus /\ [][NextStatus]_vars

\* One caller of do() with every method, URL, parameters and body, with a
\* username and the throttle auto-retry switched on.
DoStartWith(t, a, m, u, p, d) ==
    /\ DoRequest(t, a, m, u, p, d)
    /\ UNCHANGED others
InitRequest == Init /\ username /\ ref = NoToken /\ budget = 1
NextRequest ==
    \/ \E t \in OneCaller, a \in BOOLEAN, m \in MethodSet, u \in UrlSet,
          p \in ParamsSet, d \in DataSet : DoStartWith(t, a, m, u, p, d)
    \/ \E t \in OneCaller : Request(t)
    \/ \E t \in OneCaller, ok \in BOOLEAN : RefreshResponse(t, ok)
    \/ \E t \in OneCaller, ok \in BOOLEAN : PasswordResponse(t, ok)
    \/ \E t \in OneCaller : AdoptRefresh(t)
    \/ \E t \in OneCaller : Respond(t)
    \/ \E t \in OneCaller : Wake(t)
    \/ Tick
SpecRequest == InitRequest /\ [][NextRequest]_vars

\* The throttle guard with answers that may lack the Retry-After header: two
\* callers of do(), the auto-retry switched on; asked keeps the furthest
\* deadline that the 429 answers handled so far have set.
RespondWatched(t) ==
    \E s \in StatusSet, ra \in RetryAfterSet \cup {NoHeader} :
        /\ Response(t, s, ra)
        /\ asked' = IF s = 429 /\ ThrottleDeadline(now, DelaySeconds(ra)) > asked
                    THEN ThrottleDeadline(now, DelaySeconds(ra))
                    ELSE asked
InitDelay == InitThrottle /\ budget = 1
NextDelay ==
    \/ \E t \in Threads, a \in BOOLEAN : DoStart(t, a)
    \/ \E t \in Threads : Request(t)
    \/ \E t \in Threads, ok \in BOOLEAN : RefreshResponse(t, ok)
    \/ \E t \in Threads, ok \in BOOLEAN : PasswordResponse(t, ok)
    \/ \E t \in Threads : AdoptRefresh(t)
    \/ \E t \in Threads : RespondWatched(t)
    \/ \E t \in Threads : Wake(t)
    \/ Tick
SpecDelay == InitDelay /\ [][NextDelay]_vars

\* ------------------------------------------------------- Client.iterate
\* The thread that consumes the generator.
Consumer == "t1"

\* The records of a collection are numbered in server order; SumTo is the
\* number of records on the first k pages.
RECURSIVE SumTo(_, _)
SumTo(sizes, k) == IF k = 0 THEN 0 ELSE sizes[k] + SumTo(sizes, k - 1)

PagesOf(sizes) ==
    [k \in 1..Len(sizes) |->
        [i \in 1..sizes[k] |-> SumTo(sizes, k - 1) + i]]

\* The collections the server may hold: up to MaxPages pages of up to
\* MaxPageLen records; the last page has a null 'next' or none.
Collections ==
    {[pages |-> PagesOf(sz), last_next |-> ln] :
        sz \in UNION {[1..p -> 0..MaxPageLen] : p \in 1..MaxPages},
        ln \in {"null", "absent"}}

\* The JSON object the server answers to a successful GET of a list URL.
ListResponse(c, u) ==
    [results |-> c.pages[u.page],
     next |-> IF u.page < Len(c.pages)
              THEN [kind |-> "url", url |-> [page |-> u.page + 1, slash |-> TRUE]]
              ELSE [kind |-> c.last_next, url |-> NoUrl]]

\* iterate: data.get("next", None).
ResponseNext(data) ==
    IF data.next.kind = "url" THEN data.next.url ELSE NoUrl

\* Variant: the records of a page are handed over last first.
PageResults_Reversed(data) ==
    [i \in 1..Len(data.results) |-> data.results[Len(data.results) + 1 - i]]

\* iterate: data.get("results", []).
PageResults(data) == data.results

\* Variant: the loop goes on without a next URL.
LoopContinues_Always(next_url) == TRUE

\* iterate: "while next_url is not None".
LoopContinues(next_url) == next_url # NoUrl

\* Variant: an error on a page ends the sequence as if it were exhausted.
AfterPage_Truncate(outcome) == IF outcome = "ok" THEN "yield" ELSE "exhausted"

\* iterate: do() returns the response, whose records are then yielded, or
\* raises, and the error leaves the generator.
AfterPage(outcome) == IF outcome = "ok" THEN "yield" ELSE "raised"

\* iterate(resource, params): the generator is made; at the first next() it
\* copies the params, sets page_size and builds the URL of the resource.
GenCall(g, gn, slash, p) ==
    /\ g.pc = "none"
    /\ LET local == SetDefault(p, "page_size", "2500")
       IN  gn = [NoIteration EXCEPT
                   !.pc = "loop",
                   !.given = p,
                   !.caller = IF CopiesParams(p) THEN p ELSE local,
                   !.params = local,
                   !.next_url = BuildUrl(ResourceUrl(slash))]

\* Variant: the call asks for the first page before it returns.
IterateCall_Eager(c, slash, p) ==
    /\ it.pc = "none"
    /\ coll' = c
    /\ LET local == SetDefault(p, "page_size", "2500")
           url == BuildUrl(ResourceUrl(slash))
       IN  /\ DoRequest(Consumer, TRUE, "GET", url, local, "None")
           /\ it' = [NoIteration EXCEPT
                        !.pc = "fetch", !.given = p, !.caller = p,
                        !.params = local, !.next_url = url,
                        !.urls = <<BuildUrl(url)>>]
    /\ UNCHANGED <<ctor, it2, exc, revoked>>

\* The first call of iterate on the client, over the collection c.
IterateCall(c, slash, p) ==
    /\ GenCall(it, it', slash, p)
    /\ coll' = c
    /\ UNCHANGED <<tok, ref, lock, deadline, now, username, budget, issued,
                   th, ob, asked, ctor, it2, exc, revoked>>

\* iterate(resource) without params.
IterateStart(c, slash) == IterateCall(c, slash, NoParams)

\* The parameters a caller gives to iterate: None or an empty mapping, a
\* filter, a page size of its own, or both.
CallerParams ==
    {NoParams, {<<"q", "x">>}, {<<"page_size", "10">>},
     {<<"q", "x">>, <<"page_size", "10">>}}

\* Collections of one record per page.
ShortCollections ==
    {c \in Collections : \A k \in 1..Len(c.pages) : Len(c.pages[k]) = 1}

\* The head of the loop of the generator g run by thread t: the next page
\* is asked for with do(), or the generator ends.
GenFetch(g, gn, t) ==
    /\ g.pc = "loop"
    /\ IF LoopContinues(g.next_url)
       THEN /\ DoRequest(t, TRUE, "GET", g.next_url, g.params, "None")
            /\ gn = [g EXCEPT !.pc = "fetch",
                              !.urls = Append(@, BuildUrl(g.next_url))]
       ELSE /\ gn = [g EXCEPT !.pc = "exhausted"]
            /\ UNCHANGED <<tok, ref, lock, deadline, now, username, budget,
                           issued, th, ob, asked>>

IterFetch ==
    /\ GenFetch(it, it', Consumer)
    /\ UNCHANGED <<ctor, coll, it2, exc, revoked>>

\* do() has returned the response, which is parsed, or has raised.
GenResume(g, gn, t) ==
    /\ g.pc = "fetch"
    /\ th[t].pc = "done"
    /\ LET o == ob[t].outcome
           data == ListResponse(coll, Last(g.urls))
       IN  gn = [g EXCEPT
                   !.pc = AfterPage(o),
                   !.buf = IF o = "ok" THEN PageResults(data) ELSE <<>>,
                   !.data_next = IF o = "ok" THEN ResponseNext(data) ELSE NoUrl,
                   !.nexts = IF o = "ok" THEN Append(@, ResponseNext(data)) ELSE @,
                   !.error = IF o = "ok" THEN "none" ELSE o,
                   !.sends = @ + ob[t].sends,
                   !.refused = @ + Len(ob[t].hist)
                                 - (IF o = "ok" THEN 1 ELSE 0)]

IterResume ==
    /\ GenResume(it, it', Consumer)
    /\ UNCHANGED <<tok, ref, lock, deadline, now, username, budget, issued,
                   th, ob, asked, ctor, coll, it2, exc, revoked>>

\* "yield from": one record is handed to the consumer.
GenYield(g, gn) ==
    /\ g.pc = "yield"
    /\ g.buf # <<>>
    /\ gn = [g EXCEPT !.yielded = Append(@, Head(g.buf)),
                      !.buf = Tail(g.buf)]

IterYield ==
    /\ GenYield(it, it')
    /\ UNCHANGED <<tok, ref, lock, deadline, now, username, budget, issued,
                   th, ob, asked, ctor, coll, it2, exc, revoked>>

\* Variant: params is kept for the following pages.
IterAdvance_KeepParams ==
    /\ it.pc = "yield"
    /\ it.buf = <<>>
    /\ it' = [it EXCEPT !.pc = "loop", !.next_url = it.data_next]
    /\ UNCHANGED <<tok, ref, lock, deadline, now, username, budget, issued,
                   th, ob, asked, ctor, coll, it2, exc, revoked>>

\* After the last record of the page: next_url and params are set for the
\* next turn of the loop.
GenAdvance(g, gn) ==
    /\ g.pc = "yield"
    /\ g.buf = <<>>
    /\ gn = [g EXCEPT !.pc = "loop", !.next_url = g.data_next,
                      !.params = NoParams]

IterAdvance ==
    /\ GenAdvance(it, it')
    /\ UNCHANGED <<tok, ref, lock, deadline, now, username, budget, issued,
                   th, ob, asked, ctor, coll, it2, exc, revoked>>

\* The consumer drops the generator while it is suspended at a yield.
IterClose ==
    /\ it.pc = "yield"
    /\ Len(it.buf) < Len(coll.pages[Last(it.urls).page])
    /\ it' = [it EXCEPT !.pc = "closed"]
    /\ UNCHANGED <<tok, ref, lock, deadline, now, username, budget, issued,
                   th, ob, asked, ctor, coll, it2, exc, revoked>>

\* A second call of iterate on the same client and the same resource, while
\* the generator of the first call exists; its consumer is another thread.
\* Its next_url, params and data are the local variables of its own
\* generator frame.
OtherConsumer == "t2"

SecondCall(slash) ==
    /\ it.pc # "none"
    /\ GenCall(it2, it2', slash, NoParams)
    /\ UNCHANGED <<tok, ref, lock, deadline, now, username, budget, issued,
                   th, ob, asked, ctor, coll, it, exc, revoked>>

SecondFetch ==
    /\ GenFetch(it2, it2', OtherConsumer)
    /\ UNCHANGED <<ctor, coll, it, exc, revoked>>

SecondResume ==
    /\ GenResume(it2, it2', OtherConsumer)
    /\ UNCHANGED <<tok, ref, lock, deadline, now, username, budget, issued,
                   th, ob, asked, ctor, coll, it, exc, revoked>>

SecondYield ==
    /\ GenYield(it2, it2')
    /\ UNCHANGED <<tok, ref, lock, deadline, now, username, budget, issued,
                   th, ob, asked, ctor, coll, it, exc, revoked>>

\* Variant: next_url is an attribute of the client, shared by the
\* generators.
SecondAdvance_SharedCursor ==
    /\ GenAdvance(it2, it2')
    /\ it' = [it EXCEPT !.next_url = it2.data_next]
    /\ UNCHANGED <<tok, ref, lock, deadline, now, username, budget, issued,
                   th, ob, asked, ctor, coll, exc, revoked>>

SecondAdvance ==
    /\ GenAdvance(it2, it2')
    /\ UNCHANGED <<tok, ref, lock, deadline, now, username, budget, issued,
                   th, ob, asked, ctor, coll, it, exc, revoked>>

\* One consumer iterating over a collection, with a username, the throttle
\* auto-retry switched off and the clock standing still; NextConsume is a
\* consumer that never drops the generator.
InitIterate == Init /\ username /\ ref = NoToken /\ budget = NoBudget
NextConsume ==
    \/ /\ it.pc = "none"
       /\ \E c \in Collections, slash \in BOOLEAN : IterateStart(c, slash)
    \/ IterFetch
    \/ IterResume
    \/ IterYield
    \/ IterAdvance
    \/ \E t \in OneCaller : Request(t)
    \/ \E t \in OneCaller, ok \in BOOLEAN : RefreshResponse(t, ok)
    \/ \E t \in OneCaller, ok \in BOOLEAN : PasswordResponse(t, ok)
    \/ \E t \in OneCaller : AdoptRefresh(t)
    \/ \E t \in OneCaller : Respond(t)
NextIterate == NextConsume \/ IterClose

\* iterate with each kind of caller parameters, over collections of one
\* record per page.
NextParams ==
    \/ /\ it.pc = "none"
       /\ \E c \in ShortCollections, slash \in BOOLEAN, p \in CallerParams :
             IterateCall(c, slash, p)
    \/ IterFetch
    \/ IterResume
    \/ IterYield
    \/ IterAdvance
    \/ \E t \in OneCaller : Request(t)
    \/ \E t \in OneCaller, ok \in BOOLEAN : RefreshResponse(t, ok)
    \/ \E t \in OneCaller, ok \in BOOLEAN : PasswordResponse(t, ok)
    \/ \E t \in OneCaller : AdoptRefresh(t)
    \/ \E t \in OneCaller : Respond(t)
SpecIterate == InitIterate /\ [][NextIterate]_vars
SpecParams == InitIterate /\ [][NextParams]_vars
\* Every network call returns and the consumer keeps asking.
SpecConsume == InitIterate /\ [][NextConsume]_vars /\ WF_vars(NextConsume)

\* Collections of two pages at most, or of one record per page.
PairCollections ==
    {c \in Collections : Len(c.pages) <= 2} \cup ShortCollections

\* Two iterations over the same collection, each consumed by its own
\* thread, their steps interleaved in every order; the second may start at
\* any moment after the first, also after the first has ended.
NextTwo ==
    \/ /\ it.pc = "none"
       /\ \E c \in PairCollections, slash \in BOOLEAN :
             IterateStart(c, slash)
    \/ /\ it2.pc = "none"
       /\ \E slash \in BOOLEAN : SecondCall(slash)
    \/ IterFetch
    \/ IterResume
    \/ IterYield
    \/ IterAdvance
    \/ SecondFetch
    \/ SecondResume
    \/ SecondYield
    \/ SecondAdvance
    \/ \E t \in Threads : Request(t)
    \/ \E t \in Threads, ok \in BOOLEAN : RefreshResponse(t, ok)
    \/ \E t \in Threads, ok \in BOOLEAN : PasswordResponse(t, ok)
    \/ \E t \in Threads : AdoptRefresh(t)
    \/ \E t \in Threads : Respond(t)
SpecTwo == InitIterate /\ [][NextTwo]_vars

\* The token store on its own: every kind of credentials, two callers of
\* do(), tokens and logout(), the throttle auto-retry switched off, the
\* clock standing still.
InitAuth == Init /\ budget = NoBudget
NextAuth ==
    \/ \E t \in Threads, a \in BOOLEAN : DoStart(t, a)
    \/ \E t \in Threads : Request(t)
    \/ \E t \in Threads, ok \in BOOLEAN : RefreshResponse(t, ok)
    \/ \E t \in Threads, ok \in BOOLEAN : PasswordResponse(t, ok)
    \/ \E t \in Threads : AdoptRefresh(t)
    \/ \E t \in Threads : Respond(t)
    \/ NextStore
SpecAuth == InitAuth /\ [][NextAuth]_vars

\* The same callers, the tokens that logout has revoked remembered.
NextLogout ==
    \/ \E t \in Threads, a \in BOOLEAN : DoStart(t, a)
    \/ \E t \in Threads : Request(t)
    \/ \E t \in Threads, ok \in BOOLEAN : RefreshResponse(t, ok)
    \/ \E t \in Threads, ok \in BOOLEAN : PasswordResponse(t, ok)
    \/ \E t \in Threads : AdoptRefresh(t)
    \/ \E t \in Threads : Respond(t)
    \/ \E t \in Threads : TokensStart(t)
    \/ \E t \in Threads : LogoutStart(t)
    \/ \E t \in Threads : Tokens(t)
    \/ \E t \in Threads : Logout(t)
    \/ \E t \in Threads, s \in RevokeStatusSet : RevokeWatched(t, s)
    \/ \E t \in Threads : ClearRefresh(t)
SpecLogout == InitAuth /\ [][NextLogout]_vars

\* ============================================================ properties
Count(h, x) == Cardinality({i \in 1..Len(h) : h[i] = x})
IsDo(t) == th[t].op = "do"
DoneDo(t) == th[t].pc = "done" /\ IsDo(t)
\* The step sends a resource request of thread t to the network.
SendStep(t) == th[t].pc # "await" /\ th'[t].pc = "await"
\* The step is the receipt of a response with the given status by thread t.
ResponseStep(t, status) ==
    /\ th[t].pc = "await"
    /\ ob'[t].hist = Append(ob[t].hist, status)

\* C1: every authenticated resource request in flight (a first attempt, the
\* resend after a 401 or the resend after the auto-retry sleep) carries as
\* its Authorization header a non-empty access token that the token store
\* adopted from the OAuth server.
C1_BearerOnEverySend ==
    \A t \in Threads :
        (th[t].pc = "await" /\ th[t].authenticated)
            => (th[t].hdr # NoToken /\ th[t].hdr \in 1..issued)

\* C1 witness: an authenticated resend after a 401, inside the re-run that
\* follows the auto-retry sleep, is in flight.
C1_Witness ==
    \E t \in Threads :
        /\ th[t].pc = "await" /\ th[t].authenticated
        /\ th[t].is_retry /\ th[t].pass = 2

\* C2: an authenticated do() answered 401 once and then with a success
\* returns that success after exactly one forced re-authentication and one
\* resend (two sends); a 401 on the first send and on its resend ends the
\* call with AuthenticationError and nothing is sent after the second 401.
C2_SingleReauthResend ==
    \A t \in Threads :
        (IsDo(t) /\ th[t].authenticated) =>
            LET h == ob[t].hist IN
            /\ (th[t].pc = "done" /\ Count(h, 401) = 1 /\ Count(h, 429) = 0
                    /\ ob[t].outcome = "ok")
                  => (h = <<401, 200>> /\ ob[t].forced = 1 /\ ob[t].sends = 2)
            /\ (th[t].pc = "done" /\ Len(h) = 2 /\ h[1] = 401 /\ h[2] < 400)
                  => (ob[t].outcome = "ok" /\ ob[t].forced = 1
                        /\ ob[t].sends = 2)
            /\ \A i \in 1..Len(h) :
                  (i > 1 /\ h[i - 1] = 401 /\ h[i] = 401)
                      => /\ i = Len(h)
                         /\ th[t].pc = "done"
                         /\ ob[t].outcome = "AuthenticationError"
                         /\ ob[t].sends = Len(h)

\* C2 witness: a call has returned the success that followed a single 401.
C2_Witness ==
    \E t \in Threads :
        /\ DoneDo(t) /\ th[t].authenticated
        /\ ob[t].hist = <<401, 200>> /\ ob[t].outcome = "ok"

\* C3: no resource request is sent while now < throttle_deadline, whatever
\* the interleaving of the callers, the 401 resend and the resend after the
\* auto-retry sleep included.
C3_NoSendBeforeDeadline ==
    [][\A t \in Threads : SendStep(t) => ~(now < deadline)]_vars

\* C4: a do() called while now < throttle_deadline ends at once with a
\* ThrottleError whose delay_seconds is the remaining wait rounded up to
\* whole seconds, having sent nothing to the network (no resource request,
\* no OAuth exchange: the token store and the deadline are untouched).
C4_FailFast ==
    [][\A t \in Threads :
          (CanCall(t) /\ th'[t].op = "do" /\ <<th[t], ob[t]>>' # <<th[t], ob[t]>>
              /\ now < deadline)
          => /\ th'[t].pc = "done"
             /\ ob'[t].outcome = "ThrottleError"
             /\ ob'[t].prevented
             /\ ob'[t].delay * TicksPerSec >= deadline - now
             /\ (ob'[t].delay - 1) * TicksPerSec < deadline - now
             /\ ob'[t].sends = 0 /\ ob'[t].hist = <<>> /\ ob'[t].forced = 0
             /\ ob'[t].sleeps = 0
             /\ UNCHANGED <<tok, ref, lock, issued, deadline, now>>]_vars

\* C4 witness: a call was refused with half a second left to wait and
\* reports a delay of one second.
C4_Witness ==
    \E t \in Threads :
        /\ DoneDo(t) /\ ob[t].prevented
        /\ deadline - now > 0 /\ (deadline - now) % TicksPerSec # 0
        /\ ob[t].delay * TicksPerSec > deadline - now

\* C5: the throttle deadline never decreases.
C5_DeadlineMonotonic == [][deadline' >= deadline]_vars

\* C6: a 429 with server delay d received by the first handling pass of
\* do(): with a budget b that is neither None nor 0 and d <= b, do() sleeps
\* d seconds (not b), re-runs the handling once the sleep is over and returns
\* the success the re-run ends with; otherwise it raises ThrottleError with
\* delay_seconds = d, without sleeping and without resending.
C6_AutoRetry ==
    [][\A t \in Threads :
          /\ (ResponseStep(t, 429) /\ th[t].pass = 1) =>
                LET d == ob'[t].retry_after IN
                IF budget # NoBudget /\ budget # 0 /\ d <= budget
                THEN /\ th'[t].pc = "sleep"
                     /\ ob'[t].slept = d
                     /\ th'[t].wake = now + d * TicksPerSec
                     /\ ob'[t].sleeps = 1
                     /\ ob'[t].sends = ob[t].sends
                ELSE /\ th'[t].pc = "done"
                     /\ ob'[t].outcome = "ThrottleError"
                     /\ ob'[t].delay = d
                     /\ ob'[t].sleeps = 0
                     /\ ob'[t].sends = ob[t].sends
          /\ (th[t].pc = "sleep" /\ th'[t].pc # "sleep") =>
                /\ now >= th[t].wake
                /\ th'[t].pc = "request" /\ th'[t].pass = 2
          /\ (DoneDo(t)' /\ ob'[t].sleeps = 1 /\ Last(ob'[t].hist) < 400)
                => ob'[t].outcome = "ok"]_vars

\* C6 witness: a call slept for a server delay shorter than the budget and
\* returned the success of its re-run.
C6_Witness ==
    \E t \in Threads :
        /\ DoneDo(t) /\ ob[t].outcome = "ok" /\ ob[t].sleeps = 1
        /\ ob[t].slept < budget /\ ob[t].slept = ob[t].delay

\* C7: do() sleeps and re-runs at most once: a 429 answered to the re-run
\* ends the call with ThrottleError, with no second sleep and no further
\* send, also when its delay is within the budget.
C7_RetryOnce ==
    \A t \in Threads :
        /\ ob[t].sleeps <= 1
        /\ (th[t].pc = "sleep" => th[t].pass = 1)
        /\ Count(ob[t].hist, 429) <= 2
        /\ Count(ob[t].hist, 429) = 2 =>
              /\ th[t].pc = "done"
              /\ Last(ob[t].hist) = 429
              /\ ob[t].outcome = "ThrottleError"
              /\ ob[t].delay = ob[t].retry_after
              /\ ob[t].sleeps = 1
              /\ ob[t].sends = Len(ob[t].hist)

\* C7 witness: the re-run was answered with a 429 whose delay is within the
\* budget, and the call has ended.
C7_Witness ==
    \E t \in Threads :
        /\ DoneDo(t) /\ Count(ob[t].hist, 429) = 2
        /\ budget > 0 /\ ob[t].delay <= budget

\* What is left to do of the call that frame f runs: the attempts not yet
\* started (two passes of two sends), then the steps of the current one.
MeasureOf(f) ==
    IF f.pc \in {"idle", "done"} THEN 0
    ELSE LET attempt == (f.pass - 1) * 2 + (IF f.is_retry THEN 1 ELSE 0)
             rank == CASE f.pc \in {"request", "lock"} -> 5
                       [] f.pc \in {"refresh", "revoke"} -> 4
                       [] f.pc = "password" -> 3
                       [] f.pc \in {"adopt", "clear"} -> 2
                       [] f.pc = "await" -> 1
                       [] f.pc = "sleep" -> 0
         IN (3 - attempt) * 8 + rank + 1

\* C8: one do() sends at most four resource requests, forces at most two
\* re-authentications and sleeps at most once; every step of a call brings
\* it nearer to its end (so it ends when each network call returns); a call
\* that ends without a success to return ends with a typed error.
C8_Bounded ==
    [][\A t \in Threads :
          /\ ob'[t].sends <= 4 /\ ob'[t].forced <= 2 /\ ob'[t].sleeps <= 1
          /\ Len(ob'[t].hist) <= ob'[t].sends
          /\ (~CanCall(t) /\ th'[t] # th[t])
                => (MeasureOf(th'[t]) < MeasureOf(th[t]) /\ MeasureOf(th'[t]) >= 0)
          /\ (th'[t].pc = "done") =>
                /\ ob'[t].outcome \in Outcomes
                /\ (IsDo(t)' /\ ob'[t].outcome = "ok")
                      => (ob'[t].hist # <<>> /\ Last(ob'[t].hist) < 400)]_vars

\* C8 witness: a call that used everything: four sends, two forced
\* re-authentications and one sleep.
C8_Witness ==
    \E t \in Threads :
        /\ DoneDo(t)
        /\ ob[t].sends = 4 /\ ob[t].forced = 2 /\ ob[t].sleeps = 1

\* The threads inside the authenticator's critical section, and those with
\* an OAuth request (a grant or a revocation) in flight.
InStore(t) == th[t].pc \in {"refresh", "password", "adopt", "revoke", "clear"}
InExchange(t) == th[t].pc \in {"refresh", "password", "revoke"}
\* The step reads or writes the token pair on behalf of thread t.
StoreStep(t) ==
    /\ \/ InStore(t)
       \/ th[t].pc = "lock"
       \/ (th[t].pc = "request" /\ th[t].authenticated)
    /\ th'[t] # th[t]

\* C9: at most one OAuth exchange is in progress at any time, and from the
\* check of get_token / tokens / logout to the adoption (or the clearing)
\* of the pair no other thread reads or writes the token pair.
C9_StoreSerialized ==
    /\ [](Cardinality({t \in Threads : InExchange(t)}) <= 1)
    /\ [](\A t \in Threads : InStore(t) => lock = t)
    /\ [][\A t, u \in Threads :
            (InStore(u) /\ t # u) =>
                (~StoreStep(t) /\ (th'[u] = th[u] => <<tok, ref>>' = <<tok, ref>>))]_vars

\* C9 witness: a thread waits for the lock while another one has a grant
\* in flight.
C9_Witness ==
    \E t, u \in Threads :
        /\ t # u
        /\ InExchange(u)
        /\ th[t].pc \in {"lock", "request"} /\ (IsDo(t) => th[t].authenticated)

\* C10: outside the critical section the store holds the pair of one OAuth
\* response (or no access token), and tokens() returns the two tokens of
\* one and the same response.
C10_ConsistentPair ==
    /\ (lock = NoThread) => (tok = NoToken \/ tok = ref)
    /\ \A t \in Threads :
          (th[t].pc = "done" /\ th[t].op = "tokens" /\ ob[t].outcome = "ok")
              => /\ ob[t].result[1] = ob[t].result[2]
                 /\ ob[t].result[1] \in 1..issued

\* C10 witness: tokens() has returned the pair of the second exchange while
\* another thread is between the two writes of an adoption.
C10_Witness ==
    \E t, u \in Threads :
        /\ th[t].pc = "done" /\ th[t].op = "tokens" /\ ob[t].outcome = "ok"
        /\ ob[t].result[1] > 1
        /\ th[u].pc = "adopt"

\* The step moves the frame of the call of thread t.
Moves(t) == th'[t] # th[t]
\* The step is the receipt, by thread t, of a 200 answer to a grant.
Granted(t) == th[t].pc \in {"refresh", "password"} /\ issued' = issued + 1

\* C11: get_token(force_refetch=is_retry), as _do_request calls it: with an
\* access token held and no force_refetch it returns that token and sends
\* nothing to the OAuth server; with no token held or with force_refetch it
\* runs __authenticate first, and the token it returns (the Authorization
\* header of the request) is the access token of the response adopted by
\* that authentication.
C11_GetToken ==
    [][\A t \in Threads :
          /\ (th[t].pc = "request" /\ th[t].authenticated /\ Moves(t)) =>
                IF tok # NoToken /\ ~th[t].is_retry
                THEN /\ th'[t].pc = "await" /\ th'[t].hdr = tok
                     /\ ~InStore(t)'
                     /\ UNCHANGED <<tok, ref, lock, issued>>
                ELSE /\ InExchange(t)' /\ lock' = t
                     /\ th'[t].grants # <<>>
                     /\ ob'[t].sends = ob[t].sends
          /\ (th[t].pc = "adopt" /\ IsDo(t) /\ Moves(t)) =>
                /\ th'[t].pc = "await"
                /\ th[t].grants # <<>>
                /\ th'[t].hdr = th[t].resp
                /\ th'[t].hdr = tok' /\ th'[t].hdr = issued]_vars

\* C11 witness: a resend carries the token adopted by its forced
\* re-authentication while the other caller has sent its request with that
\* same token, which it found in the store.
C11_Witness ==
    \E t, u \in Threads :
        /\ t # u /\ issued = 2
        /\ th[t].pc = "await" /\ th[t].is_retry /\ th[t].hdr = issued
        /\ th[u].pc = "await" /\ ~th[u].is_retry /\ th[u].authenticated
        /\ th[u].hdr = issued /\ ob[u].forced = 0

\* C12: __authenticate posts the refresh_token grant first whenever a
\* refresh token is known, and only a password grant otherwise; a 200 answer
\* to the refresh_token grant is adopted (access and refresh token of that
\* response) with no password grant; any other answer, with a username
\* configured, is followed by exactly one password grant; a 200 answer to the
\* password grant is adopted and any other raises AuthenticationError.
C12_GrantOrder ==
    [][\A t \in Threads :
          /\ (~InStore(t) /\ InExchange(t)' /\ th'[t].pc # "revoke") =>
                /\ th'[t].grants = <<IF ref # NoToken THEN "refresh" ELSE "password">>
                /\ th'[t].pc = th'[t].grants[1]
          /\ (th[t].pc = "refresh" /\ Moves(t)) =>
                IF Granted(t)
                THEN /\ th'[t].pc = "adopt" /\ th'[t].grants = <<"refresh">>
                     /\ th'[t].resp = issued' /\ tok' = issued'
                ELSE username =>
                     /\ th'[t].pc = "password"
                     /\ th'[t].grants = <<"refresh", "password">>
                     /\ UNCHANGED <<tok, ref, lock>>
          /\ (th[t].pc = "password" /\ Moves(t)) =>
                IF Granted(t)
                THEN /\ th'[t].pc = "adopt" /\ th'[t].grants = th[t].grants
                     /\ th'[t].resp = issued' /\ tok' = issued'
                ELSE /\ th'[t].pc = "done"
                     /\ ob'[t].outcome = "AuthenticationError"
                     /\ ob'[t].carries = "password"
                     /\ lock' = NoThread
                     /\ UNCHANGED <<tok, ref>>
          /\ (th[t].pc = "adopt" /\ Moves(t)) =>
                /\ th[t].grants \in {<<"refresh">>, <<"password">>,
                                      <<"refresh", "password">>}
                /\ tok' = th[t].resp /\ ref' = th[t].resp
                /\ ~InStore(t)' /\ lock' = NoThread
                /\ ob'[t].outcome \in {"none", "ok"}]_vars

\* C12 witness: the pair answered to the password grant that followed a
\* refused refresh_token grant is being adopted.
C12_Witness ==
    \E t \in Threads :
        /\ th[t].pc = "adopt" /\ th[t].grants = <<"refresh", "password">>
        /\ tok = th[t].resp

\* C13: a refresh_token grant answered with a status other than 200, with
\* no username configured, ends the call with an AuthenticationError that
\* carries the response to that grant; no password grant is sent and no
\* token is adopted.
C13_RefreshOnlyFatal ==
    [][\A t \in Threads :
          (th[t].pc = "refresh" /\ Moves(t) /\ ~Granted(t) /\ ~username) =>
              /\ th'[t].pc = "done"
              /\ ob'[t].outcome = "AuthenticationError"
              /\ ob'[t].carries = "refresh"
              /\ th[t].grants = <<"refresh">>
              /\ ~InExchange(t)'
              /\ lock' = NoThread
              /\ ob'[t].sends = ob[t].sends
              /\ UNCHANGED <<tok, ref, issued>>]_vars

\* C13 witness: without a username, a forced re-authentication was refused
\* by the refresh_token grant and the call has ended on that error.
C13_Witness ==
    \E t \in Threads :
        /\ ~username /\ DoneDo(t)
        /\ ob[t].outcome = "AuthenticationError" /\ ob[t].carries = "refresh"
        /\ ob[t].forced = 1 /\ ob[t].hist = <<401>>

\* C14: logout() with no refresh token held returns without any network
\* call; with one held it posts exactly one revocation request; a 2xx answer
\* clears the access token and the refresh token; any other answer raises
\* APIError and leaves the token pair unchanged.
C14_Logout ==
    [][\A t \in Threads :
          /\ (th[t].pc = "lock" /\ th[t].op = "logout" /\ Moves(t)) =>
                IF ref = NoToken
                THEN /\ th'[t].pc = "done" /\ ob'[t].outcome = "ok"
                     /\ ob'[t].revoke_status = NoStatus
                     /\ UNCHANGED <<tok, ref, lock, issued>>
                ELSE /\ th'[t].pc = "revoke" /\ th'[t].resp = ref
                     /\ lock' = t
          /\ (th[t].pc = "revoke" /\ Moves(t)) =>
                IF ob'[t].revoke_status \in 200..299
                THEN /\ th'[t].pc = "clear" /\ tok' = NoToken
                ELSE /\ th'[t].pc = "done" /\ ob'[t].outcome = "APIError"
                     /\ UNCHANGED <<tok, ref>>
          /\ (th[t].pc = "clear" /\ Moves(t)) =>
                /\ th'[t].pc = "done" /\ ob'[t].outcome = "ok"
                /\ tok' = NoToken /\ ref' = NoToken]_vars

\* The step is the receipt of a response by thread t.
Answered(t) ==
    /\ th[t].pc = "await"
    /\ Len(ob'[t].hist) = Len(ob[t].hist) + 1

\* C15: the status of the final response of _do_request decides the outcome
\* of _do_with_error_handling, for every status: below 400 the response is
\* returned; 400 raises BadRequestError, 401 AuthenticationError, 404
\* ResourceNotFoundError with the URL of the request, 429 ThrottleError (which
\* do() may catch once to sleep and re-run), any other status from 400
\* APIError; one outcome and only one.
C15_Classification ==
    [][\A t \in Threads :
          (Answered(t) /\ th'[t].pc # "request") =>
              LET s == Last(ob'[t].hist)
                  o == ob'[t].outcome
                  raised(e) == th'[t].pc = "done" /\ o = e
              IN  /\ s \in AnyStatusSet
                  /\ (s < 400) => raised("ok")
                  /\ (s = 400) => raised("BadRequestError")
                  /\ (s = 401) => raised("AuthenticationError")
                  /\ (s = 404) => /\ raised("ResourceNotFoundError")
                                  /\ ob'[t].err_url = th[t].url
                                  /\ th[t].url \in UrlSet /\ th[t].url.slash
                  /\ (s = 429) => \/ raised("ThrottleError")
                                  \/ th'[t].pc = "sleep" /\ o = "none"
                  /\ (s >= 400 /\ s \notin {400, 401, 404, 429})
                        => raised("APIError")
                  /\ (s # 404) => ob'[t].err_url = NoUrl
                  /\ (th'[t].pc = "done") => (o \in Outcomes /\ o # "none")
                  /\ (s >= 400 /\ th'[t].pc = "done")
                        => ob'[t].carries = "resource"]_vars

\* C15 witness: a request for the second page, named without its trailing
\* slash, was answered 404 and the error carries the URL that was requested.
C15_Witness ==
    \E t \in Threads :
        /\ DoneDo(t) /\ ob[t].outcome = "ResourceNotFoundError"
        /\ ob[t].err_url = [page |-> 2, slash |-> TRUE]
        /\ Last(ob[t].hist) = 404

\* The step starts a call of do() by thread t.
DoBegins(t) ==
    /\ CanCall(t) /\ th'[t].op = "do"
    /\ <<th[t], ob[t]>>' # <<th[t], ob[t]>>

\* C16: every 429 handled (on a first send, on the resend after a 401 or on
\* the resend after the auto-retry sleep) has as its delay the Retry-After
\* header when there is one and 30 seconds otherwise, and sets the shared
\* deadline to the time of handling plus that delay; every do() that starts
\* later, before such a deadline, fails fast and sends nothing.
C16_ThrottleDelay ==
    [][\A t \in Threads :
          /\ (Answered(t) /\ Last(ob'[t].hist) = 429) =>
                LET ra == ob'[t].retry_after
                    d == IF ra # NoHeader THEN ra ELSE DefaultDelay
                IN  /\ ob'[t].delay = d
                    /\ deadline' = now + d * TicksPerSec
                    /\ asked' >= deadline'
          /\ (DoBegins(t) /\ now < asked) =>
                /\ th'[t].pc = "done"
                /\ ob'[t].outcome = "ThrottleError" /\ ob'[t].prevented
                /\ ob'[t].sends = 0
                /\ UNCHANGED <<deadline, issued>>]_vars

\* ------------------------------------------------------ Client.__init__
\* The environment is read when load_from_env is set (lines 88-101).
CtorLoadEnv ==
    /\ ctor.pc = "call"
    /\ ctor' = [ctor EXCEPT
                  !.pc = "check",
                  !.username = IF ctor.load_from_env
                               THEN OrEnv(ctor.username, ctor.env_user)
                               ELSE ctor.username,
                  !.token = IF ctor.load_from_env
                            THEN OrEnv(ctor.token, ctor.env_token)
                            ELSE ctor.token]
    /\ UNCHANGED <<tok, ref, lock, deadline, now, username, budget, issued,
                   th, ob, asked, coll, it, it2, exc, revoked>>

\* The validation (lines 103-106): ConfigurationError leaves __init__.
CtorValidate ==
    /\ ctor.pc = "check"
    /\ ctor' = [ctor EXCEPT
                  !.pc = IF MissingCredentials(ctor.username, ctor.token)
                         THEN "raised" ELSE "attributes"]
    /\ UNCHANGED <<tok, ref, lock, deadline, now, username, budget, issued,
                   th, ob, asked, coll, it, it2, exc, revoked>>

\* The plain attributes and the session with its headers (lines 108-124);
\* throttle_max_auto_retry_delay keeps the value of the argument.
CtorSession ==
    /\ ctor.pc = "attributes"
    /\ ctor' = [ctor EXCEPT !.pc = "deadline",
                            !.made = ctor.made \cup {"session"}]
    /\ budget' = budget
    /\ UNCHANGED <<tok, ref, lock, deadline, now, username, issued,
                   th, ob, asked, coll, it, it2, exc, revoked>>

\* The throttle deadline (line 126).
CtorDeadline ==
    /\ ctor.pc = "deadline"
    /\ deadline' = DatetimeMin
    /\ ctor' = [ctor EXCEPT !.pc = "authenticator",
                            !.made = ctor.made \cup {"_throttle_deadline"}]
    /\ UNCHANGED <<tok, ref, lock, now, username, budget, issued,
                   th, ob, asked, coll, it, it2, exc, revoked>>

\* The authenticator (lines 127-135 and Authenticator.__init__): no token,
\* the initial refresh token, the lock; then __init__ returns.
CtorAuthenticator ==
    /\ ctor.pc = "authenticator"
    /\ tok' = NoToken
    /\ ref' = IF Truthy(ctor.token) THEN InitialRefreshToken ELSE NoToken
    /\ username' = Truthy(ctor.username)
    /\ lock' = NoThread
    /\ ctor' = [Constructed EXCEPT
                  !.made = ctor.made \cup {"_authenticator"}]
    /\ UNCHANGED <<deadline, now, budget, issued, th, ob, asked, coll, it, it2, exc, revoked>>

\* A call of Client(...) with its arguments and the environment it runs in;
\* no client exists yet.
InitConstruct ==
    /\ tok = NoToken
    /\ ref = NoToken
    /\ username = FALSE
    /\ lock = NoThread
    /\ deadline = DatetimeMin
    /\ now = 0
    /\ budget = NoBudget
    /\ issued = 0
    /\ th = [t \in Threads |-> Idle]
    /\ ob = [t \in Threads |-> Fresh]
    /\ asked = DatetimeMin
    /\ coll = NoCollection
    /\ it = NoIteration
    /\ it2 = NoIteration
    /\ revoked = {}
    /\ exc = NoException
    /\ \E u \in StrSet, r \in StrSet, l \in BOOLEAN,
          eu \in StrSet, er \in StrSet :
          ctor = [arg_user |-> u, arg_token |-> r, load_from_env |-> l,
                  env_user |-> eu, env_token |-> er,
                  username |-> u, token |-> r, pc |-> "call", made |-> {}]

\* The methods of a client can be called once __init__ has returned it.
ClientExists == ctor.pc = "ready"

\* Construction, then calls of do() on the client by one caller.
NextConstruct ==
    \/ CtorLoadEnv
    \/ CtorValidate
    \/ CtorSession
    \/ CtorDeadline
    \/ CtorAuthenticator
    \/ ClientExists /\ \E t \in OneCaller, a \in BOOLEAN : DoStart(t, a)
    \/ ClientExists /\ \E t \in OneCaller : Request(t)
    \/ ClientExists /\ \E t \in OneCaller, ok \in BOOLEAN : RefreshResponse(t, ok)
    \/ ClientExists /\ \E t \in OneCaller, ok \in BOOLEAN : PasswordResponse(t, ok)
    \/ ClientExists /\ \E t \in OneCaller : AdoptRefresh(t)
    \/ ClientExists /\ \E t \in OneCaller : Respond(t)
SpecConstruct == InitConstruct /\ [][NextConstruct]_vars

\* ------------------------------------------------------- BadRequestError
\* Strings are sequences of characters.
FieldNames == {<<"f">>, <<"g">>, <<"f", "g">>}
MessageTexts == {<<"r">>, <<"n", "o">>}

\* The lists of at most n elements of S.
SeqUpTo(S, n) == UNION {[1..k -> S] : k \in 0..n}

\* The JSON bodies of a 400 response: an object that maps each field, in the
\* order the server wrote them, to its list of messages.
Bodies ==
    {b \in SeqUpTo([field : FieldNames,
                    errors : SeqUpTo(MessageTexts, MaxMessages)], MaxFields) :
        \A i, j \in 1..Len(b) : i # j => b[i].field # b[j].field}

\* str.join
RECURSIVE Join_Comma(_, _)
Join_Comma(sep, parts) ==
    IF parts = <<>> THEN <<>>
    ELSE IF Len(parts) = 1 THEN parts[1]
    ELSE parts[1] \o <<",", " ">> \o Join_Comma(sep, Tail(parts))
RECURSIVE Join(_, _)
Join(sep, parts) ==
    IF parts = <<>> THEN <<>>
    ELSE IF Len(parts) = 1 THEN parts[1]
    ELSE parts[1] \o sep \o Join(sep, Tail(parts))

\* str(int) of a status code.
Digit(d) == <<"0", "1", "2", "3", "4", "5", "6", "7", "8", "9">>[d + 1]
RECURSIVE Decimal(_)
Decimal(n) == IF n < 10 THEN <<Digit(n)>>
              ELSE Decimal(n \div 10) \o <<Digit(n % 10)>>

\* f"- {field}: {' / '.join(errors)}"
FieldLine(item) ==
    <<"-", " ">> \o item.field \o <<":", " ">>
        \o Join(<<" ", "/", " ">>, item.errors)

\* "Bad request:\n" + "\n".join([...])
BadRequestText(fields) ==
    <<"B", "a", "d", " ", "r", "e", "q", "u", "e", "s", "t", ":", "\n">>
        \o Join(<<"\n">>, [k \in 1..Len(fields) |-> FieldLine(fields[k])])

\* APIError.__init__: the status code is put in front of the message.
APIErrorMessage(status, message) ==
    IF status # 0 THEN Decimal(status) \o <<":", " ">> \o message
    ELSE message

\* BadRequestError.__init__ on the 400 response.
RaiseBadRequest ==
    /\ exc.pc = "response"
    /\ LET fields == exc.body
       IN  exc' = [exc EXCEPT
                     !.pc = "raised",
                     !.message = APIErrorMessage(exc.status,
                                                 BadRequestText(fields)),
                     !.error_fields = fields]
    /\ UNCHANGED <<tok, ref, lock, deadline, now, username, budget, issued,
                   th, ob, asked, ctor, coll, it, it2,
                   revoked>>

\* A 400 response with one of the bodies has been received.
InitBadRequest ==
    /\ tok = NoToken
    /\ ref = NoToken
    /\ username = TRUE
    /\ lock = NoThread
    /\ deadline = DatetimeMin
    /\ now = 0
    /\ budget = NoBudget
    /\ issued = 0
    /\ th = [t \in Threads |-> Idle]
    /\ ob = [t \in Threads |-> Fresh]
    /\ asked = DatetimeMin
    /\ ctor = Constructed
    /\ coll = NoCollection
    /\ it = NoIteration
    /\ it2 = NoIteration
    /\ revoked = {}
    /\ \E b \in Bodies :
          exc = [NoException EXCEPT !.pc = "response", !.status = 400,
                                    !.body = b]
NextBadRequest == RaiseBadRequest
SpecBadRequest == InitBadRequest /\ [][NextBadRequest]_vars

\* The records of the first k pages, in server order.
RECURSIVE Flatten(_, _)
Flatten(pages, k) == IF k = 0 THEN <<>> ELSE Flatten(pages, k - 1) \o pages[k]

\* C17: an iteration that ends normally over a collection of N records on P
\* pages has yielded the N records in server order, none twice and none
\* left out, has called do() P times, the first time on the built URL of
\* the resource and then on the 'next' URL of the preceding response, and
\* has sent one resource request per page plus one for each answer that
\* _do_request resent (P requests when every answer is a success).
C17_IterateAll ==
    (it.pc = "exhausted") =>
        LET P == Len(coll.pages)
            N == SumTo([k \in 1..P |-> Len(coll.pages[k])], P)
        IN  /\ it.yielded = Flatten(coll.pages, P)
            /\ it.yielded = [i \in 1..N |-> i]
            /\ Len(it.urls) = P /\ Len(it.nexts) = P
            /\ it.urls[1] = [page |-> 1, slash |-> TRUE]
            /\ \A i \in 2..P : it.urls[i] = it.nexts[i - 1]
            /\ it.sends = P + it.refused
            /\ it.error = "none"

\* C17 witness: three pages, four records or more, each page answered with
\* a success at once: three requests.
C17_Witness ==
    /\ it.pc = "exhausted"
    /\ Len(coll.pages) = 3 /\ Len(it.yielded) >= 4
    /\ Len(coll.pages[2]) = 0
    /\ it.sends = 3 /\ it.refused = 0

\* C18: when the do() of page k raises, the generator has yielded the
\* records of pages 1..k-1 in order and nothing else, and the error leaves
\* it; after an error the generator is never exhausted, asks for no page
\* and sends nothing.
C18_IterateError ==
    /\ [](it.error # "none" =>
            /\ it.pc = "raised"
            /\ it.error \in Outcomes \ {"ok"}
            /\ it.error = ob[Consumer].outcome
            /\ it.yielded = Flatten(coll.pages, Len(it.urls) - 1)
            /\ it.buf = <<>>)
    /\ [][it.error # "none" => UNCHANGED <<it, th, ob, issued>>]_vars

\* C18 witness: the request for the third page ended in an APIError after
\* the records of two pages were yielded.
C18_Witness ==
    /\ it.pc = "raised" /\ it.error = "APIError"
    /\ Len(it.urls) = 3 /\ Len(it.yielded) >= 2
    /\ it.yielded = Flatten(coll.pages, 2)

\* A response without a next page has been received.
LastPageSeen == it.nexts # <<>> /\ Last(it.nexts) = NoUrl

\* C19: over a finite collection, an iteration whose consumer keeps asking
\* ends; it is exhausted right after the records of the first response
\* whose 'next' is null or absent, and from that response on no page is
\* asked for and nothing is sent.
C19_IterateStops ==
    /\ <>(it.pc \in {"exhausted", "raised"})
    /\ (LastPageSeen ~> it.pc = "exhausted")
    /\ [](it.pc = "exhausted" =>
            /\ LastPageSeen
            /\ \A i \in 1..(Len(it.nexts) - 1) : it.nexts[i] # NoUrl)
    /\ [][LastPageSeen =>
            /\ it'.urls = it.urls /\ it'.nexts = it.nexts
            /\ UNCHANGED <<th, ob, issued>>
            /\ it'.pc \in {"yield", "loop", "exhausted"}]_vars

\* C19 witness: the generator is exhausted after a last page whose 'next'
\* key is absent, on a collection of three pages.
C19_Witness ==
    /\ it.pc = "exhausted" /\ coll.last_next = "absent"
    /\ Len(coll.pages) = 3 /\ Len(it.urls) = 3

\* Neither a username nor an initial refresh token is given to the
\* constructor, the environment counted when load_from_env is set.
NoCredentials ==
    /\ ~Truthy(ctor.arg_user) /\ ~Truthy(ctor.arg_token)
    /\ ctor.load_from_env => ~Truthy(ctor.env_user) /\ ~Truthy(ctor.env_token)

\* No request has been sent and no call is in progress.
NoNetworkCall ==
    /\ issued = 0
    /\ \A t \in Threads : th[t] = Idle /\ ob[t] = Fresh

\* C20: a construction without username and without initial refresh token
\* (after the environment is loaded, when asked) goes from the validation to
\* ConfigurationError and nowhere else; when it is raised, and only then
\* without credentials, no request was sent, no attribute of the client
\* exists (session, throttle deadline, authenticator with its tokens), and
\* nothing can be called afterwards.
C20_Configuration ==
    /\ [][ctor.pc = "check" /\ NoCredentials => ctor'.pc = "raised"]_vars
    /\ [](ctor.pc \in {"attributes", "deadline", "authenticator"} =>
            ~NoCredentials)
    /\ [](ctor.pc = "raised" =>
            NoCredentials /\ ctor.made = {} /\ NoNetworkCall)
    /\ [](ctor.pc # "ready" => NoNetworkCall)
    /\ [][ctor.pc = "raised" => UNCHANGED vars]_vars

\* C20 witness: ConfigurationError with empty strings as arguments and
\* load_from_env set in an environment that sets neither variable.
C20_Witness ==
    /\ ctor.pc = "raised"
    /\ ctor.arg_user = "" /\ ctor.arg_token = ""
    /\ ctor.load_from_env /\ ctor.env_user = "None" /\ ctor.env_token = ""

\* The string hay contains the string needle.
Contains(hay, needle) ==
    \E i \in 0..(Len(hay) - Len(needle)) :
        SubSeq(hay, i + 1, i + Len(needle)) = needle

\* The messages of a field, each two separated by ' / '.
RECURSIVE Slashed(_, _)
Slashed(errors, k) ==
    IF k = 0 THEN <<>>
    ELSE IF k = 1 THEN errors[1]
    ELSE Slashed(errors, k - 1) \o <<" ", "/", " ">> \o errors[k]

\* C21: the BadRequestError raised for a 400 response whose body maps
\* fields to lists of messages has a message that contains, for every field,
\* '<field>: <messages joined by " / ">', and error_fields is the body.
C21_BadRequest ==
    (exc.pc = "raised") =>
        /\ \A k \in 1..Len(exc.body) :
              Contains(exc.message,
                       exc.body[k].field \o <<":", " ">>
                           \o Slashed(exc.body[k].errors,
                                      Len(exc.body[k].errors)))
        /\ exc.error_fields = exc.body

\* C21 witness: two fields, the second with two messages; the message is
\* '400: Bad request:\n- fg: r\n- f: no / r'.
C21_Witness ==
    /\ exc.pc = "raised"
    /\ exc.body = <<[field |-> <<"f", "g">>, errors |-> << <<"r">> >>],
                    [field |-> <<"f">>, errors |-> << <<"n", "o">>, <<"r">> >>]>>
    /\ exc.message =
         <<"4", "0", "0", ":", " ",
           "B", "a", "d", " ", "r", "e", "q", "u", "e", "s", "t", ":", "\n",
           "-", " ", "f", "g", ":", " ", "r", "\n",
           "-", " ", "f", ":", " ", "n", "o", " ", "/", " ", "r">>

\* The step is the receipt, by thread t, of the 401 answer that makes
\* _do_with_error_handling raise AuthenticationError.
Raises401(t) ==
    /\ Answered(t)
    /\ Last(ob'[t].hist) = 401
    /\ ob'[t].outcome = "AuthenticationError"
    /\ ob'[t].carries = "resource"

\* The rejected request was the resend of _do_request: a 401 came before,
\* a forced __authenticate ran after it and adopted the token this resend
\* carried.
ResendWasRejected(t) ==
    /\ th[t].is_retry
    /\ ob[t].hist # <<>> /\ Last(ob[t].hist) = 401
    /\ ob[t].forced >= 1
    /\ ob[t].sends >= 2 /\ ob[t].sends = Len(ob[t].hist) + 1
    /\ th[t].hdr # NoToken

\* C22 as stated: every AuthenticationError raised for a 401 resource
\* response follows a forced re-authentication and a resend that was
\* rejected too; never after one send only.
C22_AfterRetryOnly ==
    [][\A t \in Threads : Raises401(t) => ResendWasRejected(t)]_vars

\* C22 amended: the same for authenticated calls; an unauthenticated call
\* raises AuthenticationError on its first 401, after one send of the
\* current _do_with_error_handling run and without any authentication.
C22_AfterRetryIfAuthenticated ==
    [][\A t \in Threads : Raises401(t) =>
          IF th[t].authenticated
          THEN ResendWasRejected(t)
          ELSE /\ ~th[t].is_retry
               /\ ob[t].forced = 0
               /\ th[t].hdr = NoToken
               /\ ob[t].sends = Len(ob[t].hist) + 1
               /\ ob[t].hist \in {<<>>, <<429>>}]_vars

\* C22 witness: an authenticated call has raised AuthenticationError after
\* a 429, the sleep of the auto-retry, and then two 401 with a forced
\* re-authentication in between.
C22_Witness ==
    \E t \in Threads :
        /\ DoneDo(t) /\ th[t].authenticated
        /\ ob[t].outcome = "AuthenticationError"
        /\ ob[t].hist = <<429, 401, 401>>
        /\ ob[t].forced = 1 /\ ob[t].sends = 3

\* The step is the receipt, by thread t, of a non-200 answer to the password
\* grant that __authenticate sent after its refresh_token grant had failed.
FallbackFails(t) ==
    /\ th[t].pc = "password"
    /\ th[t].grants = <<"refresh", "password">>
    /\ th'[t].pc = "done"
    /\ ob'[t].outcome = "AuthenticationError"

\* C23: when the refresh_token grant and then the password grant of one
\* authentication fail, the token store is left without access token and
\* without refresh token.
C23_FallbackInvalidates ==
    [][\A t \in Threads :
          FallbackFails(t) => tok' = NoToken /\ ref' = NoToken]_vars

\* The refresh token the store must hold: the one of the latest successful
\* exchange, or the initial one when no exchange has succeeded.
LatestRefresh == IF issued = 0 THEN InitialRefreshToken ELSE issued

\* The step begins an authentication of thread t.
Authenticates(t) ==
    /\ th[t].pc \in {"request", "lock"}
    /\ th'[t].pc \in {"refresh", "password"}

\* The step ends a read of the tokens property by thread t.
TokensReturns(t) ==
    /\ th[t].op = "tokens" /\ th[t].pc # "done" /\ th'[t].pc = "done"
    /\ ob'[t].outcome = "ok"

C25_DeadlineFrame ==
    [][/\ deadline' # deadline =>
              \E t \in Threads : IsDo(t) /\ ResponseStep(t, 429)
       /\ \A t \in Threads :
            /\ Answered(t) /\ Last(ob'[t].hist) # 429 => UNCHANGED deadline
            /\ DoBegins(t) => UNCHANGED deadline
            /\ StoreStep(t) => UNCHANGED deadline
            /\ Moves(t) /\ th[t].op \in {"tokens", "logout"}
                  => UNCHANGED deadline]_vars

\* C25 witness: a deadline set by a 429 is still in force after a do() was
\* failed fast, a logout was refused and an authentication failed.
C25_Witness ==
    /\ deadline # DatetimeMin
    /\ \E t \in Threads :
          /\ DoneDo(t) /\ ob[t].prevented
          /\ \E u \in Threads \ {t} :
                /\ th[u].pc = "done"
                /\ ob[u].outcome \in {"APIError", "AuthenticationError"}
                /\ ob[u].carries \in {"revoke", "password", "refresh"}

\* The step is the receipt, by thread t, of the answer to the first send of
\* a run of _do_request, and the answer is not a 401 or the call is
\* unauthenticated.
FirstAnswerIsFinal(t) ==
    /\ Answered(t)
    /\ ~th[t].is_retry
    /\ Last(ob'[t].hist) # 401 \/ ~th[t].authenticated

\* C26: when the first answer of a run of _do_request is not a 401, or the
\* call is unauthenticated, _do_request has sent once, starts no
\* authentication and no resend, and returns that answer: the caller gets
\* the outcome that its status is classified as (for a 429 within the
\* auto-retry budget, do() sleeps on it).
C26_SentOnce ==
    [][\A t \in Threads : FirstAnswerIsFinal(t) =>
          LET status == Last(ob'[t].hist) IN
          /\ ob[t].sends = Len(ob'[t].hist)
          /\ ob'[t].sends = ob[t].sends
          /\ ob'[t].forced = ob[t].forced
          /\ ~th'[t].is_retry
          /\ UNCHANGED <<tok, ref, lock, issued>>
          /\ th'[t].pc \in {"done", "sleep"}
          /\ th'[t].pc = "done" => ob'[t].outcome = Classify(status)
          /\ th'[t].pc = "sleep" => status = 429]_vars

\* C26 witness: an unauthenticated call answered 401 has ended after one
\* send, without any authentication.
C26_Witness ==
    \E t \in Threads :
        /\ DoneDo(t) /\ ~th[t].authenticated
        /\ ob[t].hist = <<401>> /\ ob[t].sends = 1 /\ ob[t].forced = 0
        /\ ob[t].outcome = "AuthenticationError"
        /\ issued = 0

\* The step is the receipt, by thread t, of the 401 that _do_request answers
\* with a resend.
Rejected(t) ==
    /\ Answered(t)
    /\ th'[t].pc = "request" /\ th'[t].is_retry

\* The step sends the resend of thread t.
Resends(t) == SendStep(t) /\ th[t].is_retry /\ th[t].authenticated

\* C27: when the 401 is received the thread has no exchange in progress and
\* keeps the rejected token in its request until the resend; the resend
\* takes as its token the access token of an exchange that this thread ran,
\* under the lock, after the 401, and that token was issued after the
\* rejected one, whatever the other threads do meanwhile.
C27_FreshTokenOnResend ==
    [][\A t \in Threads :
          /\ Rejected(t) =>
                /\ lock # t /\ th'[t].grants = <<>>
                /\ th'[t].hdr = th[t].hdr /\ th[t].hdr # NoToken
                /\ th[t].hdr <= issued
          /\ th[t].is_retry /\ Moves(t) /\ th[t].pc # "await"
                /\ th'[t].pc \notin {"await", "done"}
                => th'[t].hdr = th[t].hdr
          /\ th[t].is_retry /\ Granted(t) =>
                lock = t /\ th'[t].resp = issued' /\ th'[t].resp > th[t].hdr
          /\ Resends(t) =>
                /\ th[t].pc = "adopt" /\ lock = t /\ th[t].grants # <<>>
                /\ th'[t].hdr = th[t].resp /\ th[t].resp = issued
                /\ th'[t].hdr > th[t].hdr]_vars

\* C27 witness: while a thread re-authenticated after its 401, the other
\* thread had refreshed the token too; the resend carries the third token,
\* the rejected send carried the first.
C27_Witness ==
    \E t \in Threads :
        /\ th[t].pc = "await" /\ th[t].is_retry
        /\ ob[t].hist = <<401>> /\ th[t].hdr = 3
        /\ \E u \in Threads \ {t} :
              /\ th[u].pc = "await" /\ th[u].is_retry /\ th[u].hdr = 2

\* The step is the receipt, by thread t, of the non-200 answer that makes
\* the __authenticate forced by a 401 raise.
ForcedAuthFails(t) ==
    /\ IsDo(t) /\ th[t].is_retry
    /\ th[t].pc \in {"refresh", "password"}
    /\ Moves(t)
    /\ issued' = issued
    /\ th'[t].pc # "password"

\* C28: when the authentication forced by a 401 fails, do() ends there with
\* AuthenticationError: every request sent had been answered and none is
\* sent, the caller does not sleep, and the throttle deadline stays.
C28_ForcedAuthFailure ==
    [][\A t \in Threads : ForcedAuthFails(t) =>
          /\ th'[t].pc = "done"
          /\ ob'[t].outcome = "AuthenticationError"
          /\ ob'[t].carries \in {"refresh", "password"}
          /\ Last(ob[t].hist) = 401
          /\ ob'[t].hist = ob[t].hist
          /\ ob'[t].sends = ob[t].sends /\ ob[t].sends = Len(ob[t].hist)
          /\ ob'[t].sleeps = ob[t].sleeps
          /\ lock' = NoThread
          /\ UNCHANGED deadline]_vars

\* C28 witness: in the re-run after an auto-retry sleep, a 401 forced an
\* authentication whose refresh_token and password grants both failed.
C28_Witness ==
    \E t \in Threads :
        /\ DoneDo(t) /\ ob[t].outcome = "AuthenticationError"
        /\ ob[t].carries = "password"
        /\ ob[t].hist = <<429, 401>> /\ ob[t].sends = 2 /\ ob[t].sleeps = 1
        /\ ob[t].forced = 1
        /\ deadline # DatetimeMin

\* C29: every send of one call of do() after its first (the resend after a
\* 401, the resend after the auto-retry sleep, and the resend after a 401
\* in that re-run) is prepared from the same method, URL, parameters, JSON
\* body and Content-Type as the first; the Authorization header is the
\* only part that may differ.
C29_SameRequest ==
    [][\A t \in Threads : SendStep(t) =>
          /\ th'[t].first = Prepared(th'[t])
          /\ th[t].first # NoRequest => th'[t].first = th[t].first
          /\ th[t].first = NoRequest => ob[t].sends = 0
          /\ th'[t].method = th[t].method /\ th'[t].url = th[t].url
          /\ th'[t].params = th[t].params /\ th'[t].json = th[t].json]_vars

\* C29 witness: the fourth send of a POST with parameters and a body, after
\* a 401, a 429 and a 401; its token differs from the token of the first.
C29_Witness ==
    \E t \in Threads :
        /\ th[t].pc = "await" /\ ob[t].sends = 4
        /\ ob[t].hist = <<401, 429, 401>>
        /\ th[t].first = [method |-> "POST", url |-> [page |-> 2, slash |-> TRUE],
                          params |-> {<<"q", "x">>}, json |-> "d",
                          content_type |-> "application/json"]
        /\ th[t].hdr = 3

\* The caller's parameters with page_size=2500 added, unless the caller
\* gave a page size.
WithPageSize(given) ==
    IF \E v \in {"10", "2500"} : <<"page_size", v>> \in given
    THEN given
    ELSE given \cup {<<"page_size", "2500">>}

\* C30: every request for the first page (its resend after a 401 included)
\* carries the caller's parameters and the page size; every request for a
\* later page goes to the 'next' URL of the preceding response without
\* parameters; the caller's mapping keeps the content it was given with.
C30_IterateParams ==
    /\ [](it.caller = it.given)
    /\ [][SendStep(Consumer) /\ it.pc = "fetch" =>
            LET k == Len(it.urls) IN
            /\ th'[Consumer].url = it.urls[k]
            /\ th'[Consumer].method = "GET"
            /\ k = 1 => /\ th'[Consumer].params = WithPageSize(it.given)
                        /\ it.given \subseteq th'[Consumer].params
            /\ k > 1 => /\ th'[Consumer].params = NoParams
                        /\ it.urls[k] = it.nexts[k - 1]]_vars

\* C30 witness: the request for the third page is in flight without
\* parameters, after a first page asked with the caller's filter and
\* page_size=2500, and the caller's mapping is as given.
C30_Witness ==
    /\ it.pc = "fetch" /\ Len(it.urls) = 3
    /\ th[Consumer].pc = "await" /\ th[Consumer].params = NoParams
    /\ it.given = {<<"q", "x">>} /\ it.caller = {<<"q", "x">>}

\* The records of the whole collection, in order.
Records == Flatten(coll.pages, Len(coll.pages))

\* The generator g has asked for page one first and then for the 'next' of
\* its own preceding response, holds the records of the pages it has
\* received and no other, and has yielded every record once exhausted.
OwnPagination(g) ==
    /\ (g.urls # <<>> => g.urls[1].page = 1)
    /\ \A i \in 2..Len(g.urls) : g.urls[i] = g.nexts[i - 1]
    /\ (g.pc # "none" =>
          g.yielded \o g.buf = Flatten(coll.pages, Len(g.nexts)))
    /\ (g.pc = "loop" /\ g.nexts # <<>> => g.next_url = Last(g.nexts))
    /\ (g.pc = "exhausted" =>
          /\ g.yielded = Records
          /\ Len(g.urls) = Len(coll.pages)
          /\ g.sends = Len(coll.pages) + g.refused)

\* C31: two iterations over the same client, run one after the other or
\* interleaved, each ask for page one first and then follow their own
\* responses, and each yield the complete sequence of records; no step
\* changes the state of both, so that advancing one leaves the cursor and
\* the records of the other as they were.
C31_PrivatePagination ==
    /\ [](OwnPagination(it) /\ OwnPagination(it2))
    /\ [][/\ (it' # it => it2' = it2)
           /\ (it2' # it2 => it' = it)]_vars

\* C31 witness: the first iteration has yielded the records of page one
\* and its request for page two is in flight while the request of the
\* second iteration for page one is in flight.
C31_Witness ==
    /\ it.pc = "fetch" /\ Len(it.urls) = 2 /\ it.yielded # <<>>
    /\ it2.pc = "fetch" /\ Len(it2.urls) = 1
    /\ th[Consumer].pc = "await" /\ th[OtherConsumer].pc = "await"

\* C32: a do() called while now < throttle_deadline ends in that very step
\* whatever the auto-retry budget; the ThrottleError it raises locally is
\* never slept on nor followed by a request of that call, and a call goes
\* to sleep only on a 429 answer of the server to a request it has sent.
C32_PreventedNotRetried ==
    /\ [](\A t \in Threads : ob[t].prevented =>
            /\ th[t].pc = "done" /\ ob[t].outcome = "ThrottleError"
            /\ ob[t].sleeps = 0 /\ ob[t].slept = 0
            /\ ob[t].sends = 0 /\ ob[t].hist = <<>>)
    /\ [][\A t \in Threads :
            /\ (DoBegins(t) /\ now < deadline) =>
                  /\ ob'[t].prevented
                  /\ now' = now /\ deadline' = deadline
            /\ (th[t].pc # "sleep" /\ th'[t].pc = "sleep") =>
                  /\ th[t].pc = "await"
                  /\ Last(ob'[t].hist) = 429]_vars

\* C32 witness: a call was refused locally with one second or less left to
\* wait, on a client whose auto-retry budget covers that wait.
C32_Witness ==
    \E t \in Threads :
        /\ DoneDo(t) /\ ob[t].prevented
        /\ ob[t].delay = 1
        /\ ~RefuseAutoRetry(budget, ob[t].delay)

\* C33: a client built without a username, on an initial refresh token
\* alone, never has a password grant in flight, after a logout that has
\* cleared its refresh token included.
C33_NoPasswordGrantWithoutUsername ==
    [](~username => \A t \in Threads : th[t].pc # "password")

C35_Lazy ==
    /\ [][(it.pc = "none" /\ it'.pc # "none") =>
            /\ it'.pc = "loop"
            /\ it'.urls = <<>> /\ it'.yielded = <<>>
            /\ UNCHANGED <<th, ob, tok, ref, issued>>]_vars
    /\ [][(it'.urls # it.urls) =>
            /\ it.pc = "loop" /\ it.buf = <<>>
            /\ Len(it'.urls) = Len(it.urls) + 1
            /\ Len(it.nexts) = Len(it.urls)
            /\ it.yielded = Flatten(coll.pages, Len(it.urls))
            /\ DoBegins(Consumer)]_vars
    /\ [][(DoBegins(Consumer) \/ SendStep(Consumer)) =>
            /\ it'.pc = "fetch"
            /\ th'[Consumer].url = Last(it'.urls)]_vars
    /\ [][it.pc = "closed" => UNCHANGED <<it, th, ob, issued>>]_vars
    /\ [](it.pc = "closed" =>
            /\ Len(it.urls) = Len(it.nexts)
            /\ it.yielded \o it.buf = Flatten(coll.pages, Len(it.urls)))

\* C35 witness: the consumer stopped after the first record of the first
\* page of a collection of three pages; one page was asked for and the
\* second record of that page was never handed over.
C35_Witness ==
    /\ it.pc = "closed"
    /\ Len(coll.pages) = 3 /\ Len(it.urls) = 1
    /\ Len(it.yielded) = 1 /\ it.buf # <<>>
    /\ it.data_next # NoUrl

\* C36: a do() with authenticated=False never asks the authenticator for
\* a token: at every point of the call no grant is in flight for it, it
\* does not hold the lock, its request bears no Authorization header and
\* it is never resent as a retry; no step of the call, from its start to
\* its end and whatever the status answered, changes the access token, the
\* refresh token, the lock or the number of exchanges.
C36_Unauthenticated ==
    /\ [](\A t \in Threads : (th[t].op = "do" /\ ~th[t].authenticated) =>
            /\ th[t].pc \in {"request", "await", "sleep", "done"}
            /\ th[t].hdr = NoToken /\ ~th[t].is_retry
            /\ th[t].grants = <<>> /\ th[t].carried = NoToken
            /\ ob[t].forced = 0
            /\ lock # t)
    /\ [][\A t \in Threads :
            (Moves(t) /\ th'[t].op = "do" /\ ~th'[t].authenticated) =>
                UNCHANGED <<tok, ref, lock, issued>>]_vars

\* C36 witness: with a token pair in the store, an unauthenticated call
\* was answered 401 and has ended after one send, the pair still there and
\* no exchange made for it.
C36_Witness ==
    \E t \in Threads :
        /\ DoneDo(t) /\ ~th[t].authenticated
        /\ tok # NoToken /\ ref = tok /\ issued = 1
        /\ ob[t].hist = <<401>> /\ ob[t].sends = 1
====
